---- MODULE Spec2Model ----
(***************************************************************************)
(* A model of the Markdown parsing and structuring engine:                 *)
(*   MarkdownParserService.parse (both definitions found in                *)
(*   markdown-parser.service.ts), its inline format resolver, and          *)
(*   DocumentConverterService.convert.                                     *)
(*                                                                         *)
(* Text is a sequence of one-character strings; offsets reported in        *)
(* InlineFormat spans and line numbers are 0-based, as in the source.      *)
(***************************************************************************)
EXTENDS Integers, Sequences, FiniteSets, TLC

\* ------------------------------------------------------------------ bounds

\* Longest input, in lines, that the parser specification enumerates.
MaxLines == 3

\* Longest text, in characters, that the inline resolver specification
\* enumerates over its alphabet (the named sample texts are longer).
MaxTextLen == 6

\* Longest token list that the converter specification enumerates.
MaxTokens == 3

\* Longest heading text, in characters, that the converter specification
\* enumerates over its alphabet (the named sample texts are longer).
MaxHeadingLen == 4

\* Longest link text and longest url, in characters, of the enumerated links.
MaxLinkPart == 2

\* Most leading white-space characters of the enumerated list item lines.
MaxIndent == 5

\* ------------------------------------------------------- strings and chars

\* JavaScript null / undefined (kept apart from every character sequence).
Null == <<"<null>">>

\* The white space String.prototype.trim and \s remove, as far as it occurs.
WS == {" ", "\t", "\n"}

NL == "\n"

\* The backquote character (the module's lexer admits none inside a string).
BQ == "BACKQUOTE"

Min(S) == CHOOSE x \in S : \A y \in S : x <= y

\* s.slice(i) with a 0-based i.
Slice(s, i) == SubSeq(s, i + 1, Len(s))

RECURSIVE TrimStart(_)
TrimStart(s) ==
  IF s # <<>> /\ Head(s) \in WS THEN TrimStart(Tail(s)) ELSE s

RECURSIVE TrimEnd(_)
TrimEnd(s) ==
  IF s # <<>> /\ s[Len(s)] \in WS THEN TrimEnd(SubSeq(s, 1, Len(s) - 1)) ELSE s

Trim(s) == TrimEnd(TrimStart(s))

StartsWith(s, p) == Len(s) >= Len(p) /\ SubSeq(s, 1, Len(p)) = p

EndsWith(s, p) == Len(s) >= Len(p) /\ SubSeq(s, Len(s) - Len(p) + 1, Len(s)) = p

Includes(s, c) == \E i \in 1..Len(s) : s[i] = c

\* 1-based position of the first c at or after position from; 0 when none.
IndexFrom(s, c, from) ==
  LET I == {i \in from..Len(s) : s[i] = c}
  IN IF I = {} THEN 0 ELSE Min(I)

\* s.split(c)
RECURSIVE SplitFrom(_, _, _)
SplitFrom(s, c, from) ==
  LET idx == IndexFrom(s, c, from)
  IN IF idx = 0
       THEN <<SubSeq(s, from, Len(s))>>
       ELSE <<SubSeq(s, from, idx - 1)>> \o SplitFrom(s, c, idx + 1)

Split(s, c) == SplitFrom(s, c, 1)

\* parts.join(sep), sep a character sequence
RECURSIVE Join(_, _)
Join(parts, sep) ==
  IF parts = <<>> THEN <<>>
  ELSE IF Len(parts) = 1 THEN parts[1]
  ELSE parts[1] \o sep \o Join(Tail(parts), sep)

AllOf(s, c) == \A i \in 1..Len(s) : s[i] = c

Digits == {"0", "1", "2", "3", "4", "5", "6", "7", "8", "9"}

\* --------------------------------------------------- inline format resolver

\* The eight passes of extractInlineFormatting, in source order.
Patterns == <<
  [kind |-> "delim",  c |-> "*", k |-> 3, type |-> "bold"],
  [kind |-> "delim",  c |-> "_", k |-> 3, type |-> "bold"],
  [kind |-> "delim",  c |-> "*", k |-> 2, type |-> "bold"],
  [kind |-> "delim",  c |-> "_", k |-> 2, type |-> "bold"],
  [kind |-> "single", c |-> "*", k |-> 1, type |-> "italic"],
  [kind |-> "single", c |-> "_", k |-> 1, type |-> "italic"],
  [kind |-> "code",   c |-> BQ, k |-> 1, type |-> "code"],
  [kind |-> "link",   c |-> "[", k |-> 1, type |-> "link"] >>

NoNewline(text, a, b) == \A i \in a..b : text[i] # NL

\* k copies of c start at 1-based position p.
MarkerAt(text, c, k, p) ==
  p >= 1 /\ p + k - 1 <= Len(text) /\ \A i \in p..(p + k - 1) : text[i] = c

\* /c{k}(.+?)c{k}/ anchored at 1-based position s: the 1-based position of the
\* last character matched, 0 when the pattern does not match at s.
DelimEnd(text, c, k, s) ==
  IF ~MarkerAt(text, c, k, s) THEN 0
  ELSE LET Q == {q \in (s + k + 1)..Len(text) :
                   MarkerAt(text, c, k, q) /\ NoNewline(text, s + k, q - 1)}
       IN IF Q = {} THEN 0 ELSE Min(Q) + k - 1

\* LoneAt without the lookbehind and the lookahead
LoneAt_NoLookaround(text, c, p) ==
  p >= 1 /\ p <= Len(text) /\ text[p] = c

\* (?<!c)c(?!c) at position p.
LoneAt(text, c, p) ==
  /\ p >= 1 /\ p <= Len(text) /\ text[p] = c
  /\ (p = 1 \/ text[p - 1] # c)
  /\ (p = Len(text) \/ text[p + 1] # c)

\* /(?<!c)c(?!c)(.+?)(?<!c)c(?!c)/ anchored at s.
SingleEnd(text, c, s) ==
  IF ~LoneAt(text, c, s) THEN 0
  ELSE LET Q == {q \in (s + 2)..Len(text) :
                   LoneAt(text, c, q) /\ NoNewline(text, s + 1, q - 1)}
       IN IF Q = {} THEN 0 ELSE Min(Q)

\* The inline code pattern, backquote [^backquote]+ backquote, anchored at s.
\* the code pattern with an optional closing backquote
CodeEnd_Unclosed(text, s) ==
  IF ~(s <= Len(text) /\ text[s] = BQ) THEN 0
  ELSE LET q == IndexFrom(text, BQ, s + 1)
       IN IF q >= s + 2 THEN q ELSE IF Len(text) > s THEN Len(text) ELSE 0

CodeEnd(text, s) ==
  IF ~(s <= Len(text) /\ text[s] = BQ) THEN 0
  ELSE LET q == IndexFrom(text, BQ, s + 1)
       IN IF q >= s + 2 THEN q ELSE 0

\* /\[([^\]]+)\]\(([^)]+)\)/ anchored at s: the position of the closing
\* bracket (0 when no match) and of the closing parenthesis.
LinkClose(text, s) ==
  IF ~(s <= Len(text) /\ text[s] = "[") THEN 0
  ELSE LET r == IndexFrom(text, "]", s + 1)
       IN IF r >= s + 2 /\ r + 1 <= Len(text) /\ text[r + 1] = "(" THEN r ELSE 0

LinkEnd(text, s) ==
  LET r == LinkClose(text, s)
  IN IF r = 0 THEN 0
     ELSE LET q == IndexFrom(text, ")", r + 2)
          IN IF q >= r + 3 THEN q ELSE 0

MatchEnd(pat, text, s) ==
  CASE pat.kind = "delim"  -> DelimEnd(text, pat.c, pat.k, s)
    [] pat.kind = "single" -> SingleEnd(text, pat.c, s)
    [] pat.kind = "code"   -> CodeEnd(text, s)
    [] pat.kind = "link"   -> LinkEnd(text, s)

\* the link format taking match[0] without its first character as the url
FormatOf_UrlFromMatch(pat, text, s, e) ==
  IF pat.kind = "link"
    THEN [type |-> "link", start |-> s - 1, end |-> e, url |-> SubSeq(text, s + 1, e)]
    ELSE [type |-> pat.type, start |-> s - 1, end |-> e]

\* The InlineFormat pushed for a match of pat covering positions s..e.
FormatOf(pat, text, s, e) ==
  IF pat.kind = "link"
    THEN [type |-> "link", start |-> s - 1, end |-> e,
          url |-> SubSeq(text, LinkClose(text, s) + 2, e - 1)]
    ELSE [type |-> pat.type, start |-> s - 1, end |-> e]

NoMatch == [found |-> FALSE]

\* regex.exec(text) of a global regex whose lastIndex is lastIndex: the
\* leftmost match starting at or after lastIndex.
Exec(pat, text, lastIndex) ==
  LET S == {s \in (lastIndex + 1)..Len(text) : MatchEnd(pat, text, s) # 0}
  IN IF S = {} THEN NoMatch
     ELSE LET s == Min(S)
              e == MatchEnd(pat, text, s)
          IN [found |-> TRUE, format |-> FormatOf(pat, text, s, e), lastIndex |-> e]

\* the while loop of extractPattern (and the link loop), from lastIndex on
RECURSIVE ExtractFrom(_, _, _)
ExtractFrom(pat, text, lastIndex) ==
  LET m == Exec(pat, text, lastIndex)
  IN IF ~m.found THEN <<>>
     ELSE <<m.format>> \o ExtractFrom(pat, text, m.lastIndex)

ExtractPattern(pat, text) == ExtractFrom(pat, text, 0)

\* the comparator of formats.sort: negative when a goes before b
\* a comparator that leaves the formats in the order they were pushed
FormatCompare_Unordered(a, b) == 0

FormatCompare(a, b) ==
  IF a.start # b.start THEN a.start - b.start
  ELSE (b.end - b.start) - (a.end - a.start)

\* Array.prototype.sort is stable: insertion keeps equal elements in order.
RECURSIVE InsertSorted(_, _)
InsertSorted(sorted, f) ==
  IF sorted = <<>> THEN <<f>>
  ELSE IF FormatCompare(f, Head(sorted)) < 0 THEN <<f>> \o sorted
  ELSE <<Head(sorted)>> \o InsertSorted(Tail(sorted), f)

RECURSIVE SortFormats(_)
SortFormats(formats) ==
  IF formats = <<>> THEN <<>>
  ELSE InsertSorted(SortFormats(SubSeq(formats, 1, Len(formats) - 1)),
                    formats[Len(formats)])

SameTriple(a, b) == a.start = b.start /\ a.end = b.end /\ a.type = b.type

RECURSIVE DropDuplicates(_, _)
DropDuplicates(result, rest) ==
  IF rest = <<>> THEN result
  ELSE IF \E i \in 1..Len(result) : SameTriple(result[i], Head(rest))
    THEN DropDuplicates(result, Tail(rest))
    ELSE DropDuplicates(Append(result, Head(rest)), Tail(rest))

DeduplicateFormats(formats) ==
  IF Len(formats) <= 1 THEN formats
  ELSE DropDuplicates(<<>>, SortFormats(formats))

RECURSIVE CollectFormats(_, _)
CollectFormats(text, p) ==
  IF p > Len(Patterns) THEN <<>>
  ELSE ExtractPattern(Patterns[p], text) \o CollectFormats(text, p + 1)

ExtractInlineFormatting(text) == DeduplicateFormats(CollectFormats(text, 1))

\* ------------------------------------------------------- block recognisers

\* number of leading characters of s that belong to set C
RECURSIVE LeadingCount(_, _)
LeadingCount(s, C) ==
  IF s # <<>> /\ Head(s) \in C THEN 1 + LeadingCount(Tail(s), C) ELSE 0

Fence == <<BQ, BQ, BQ>>

\* /^-{3,}$/ or /^\*{3,}$/ or /^_{3,}$/ on the trimmed line
IsHorizontalRule(line) ==
  LET trimmed == Trim(line)
  IN Len(trimmed) >= 3 /\ \E c \in {"-", "*", "_"} : AllOf(trimmed, c)

\* the text captured by /^<marker>\s+(.+)$/ once the marker, n characters
\* long, has matched (\s+ is greedy and gives back one character when it has
\* taken the whole rest): Null when the rest does not match
AfterMarker(trimmed, n) ==
  LET rest == Slice(trimmed, n)
      ws == LeadingCount(rest, WS)
  IN IF ws >= 1 /\ Len(rest) >= 2
       THEN (IF Len(rest) > ws THEN Slice(rest, ws) ELSE Slice(rest, ws - 1))
       ELSE Null

\* the heading pattern with #+ in place of #{1,6}
HeadingMatch_AnyLevel(trimmed) ==
  LET h == LeadingCount(trimmed, {"#"})
  IN IF h >= 1 /\ AfterMarker(trimmed, h) # Null
       THEN [found |-> TRUE, level |-> h, text |-> AfterMarker(trimmed, h)]
       ELSE NoMatch

\* trimmed.match(/^(#{1,6})\s+(.+)$/): the level and the text, or NoMatch
HeadingMatch(trimmed) ==
  LET h == LeadingCount(trimmed, {"#"})
  IN IF h >= 1 /\ h <= 6 /\ AfterMarker(trimmed, h) # Null
       THEN [found |-> TRUE, level |-> h, text |-> AfterMarker(trimmed, h)]
       ELSE NoMatch

\* trimmed.match(/^([*\-+])\s+(.+)$/): the captured text or Null
UnorderedMatch(trimmed) ==
  IF trimmed # <<>> /\ Head(trimmed) \in {"*", "-", "+"}
    THEN AfterMarker(trimmed, 1)
    ELSE Null

\* trimmed.match(/^(\d+)\.\s+(.+)$/): the captured text or Null
OrderedMatch(trimmed) ==
  LET d == LeadingCount(trimmed, Digits)
  IN IF d >= 1 /\ Len(trimmed) > d /\ trimmed[d + 1] = "."
       THEN AfterMarker(trimmed, d + 1)
       ELSE Null

\* trimmed.match(/^!\[([^\]]*)\]\(([^)]+)\)$/): alt and url, or NoMatch
ImageMatch(trimmed) ==
  IF ~StartsWith(trimmed, <<"!", "[">>) THEN NoMatch
  ELSE LET r == IndexFrom(trimmed, "]", 3)
           n == Len(trimmed)
       IN IF /\ r # 0 /\ r + 1 <= n /\ trimmed[r + 1] = "("
             /\ IndexFrom(trimmed, ")", r + 2) = n /\ n >= r + 3
            THEN [found |-> TRUE, alt |-> SubSeq(trimmed, 3, r - 1),
                  url |-> SubSeq(trimmed, r + 2, n - 1)]
            ELSE NoMatch

\* one column cell of the separator pattern: [\s]*:?-+:?[\s]*
IsSeparatorCell(cell) ==
  LET t == Trim(cell)
      a == IF StartsWith(t, <<":">>) THEN Slice(t, 1) ELSE t
      b == IF EndsWith(a, <<":">>) THEN SubSeq(a, 1, Len(a) - 1) ELSE a
  IN b # <<>> /\ AllOf(b, "-")

\* /^\|?[\s]*:?-+:?[\s]*(\|[\s]*:?-+:?[\s]*)+\|?$/
IsTableSeparator(line) ==
  IF line = <<>> THEN FALSE
  ELSE LET body == IF Head(line) = "|" THEN Tail(line) ELSE line
           parts == Split(body, "|")
           cells == IF Len(parts) >= 2 /\ parts[Len(parts)] = <<>>
                      THEN SubSeq(parts, 1, Len(parts) - 1)
                      ELSE parts
       IN Len(cells) >= 2 /\ \A i \in 1..Len(cells) : IsSeparatorCell(cells[i])

\* parseTableRow cutting every row to two cells
ParseTableRow_TwoCells(line) == <<<<"1">>, <<"2">>>>

ParseTableRow(line) ==
  LET t == Trim(line)
      a == IF StartsWith(t, <<"|">>) THEN Slice(t, 1) ELSE t
      b == IF EndsWith(a, <<"|">>) THEN SubSeq(a, 1, Len(a) - 1) ELSE a
      parts == Split(b, "|")
  IN [i \in 1..Len(parts) |-> Trim(parts[i])]

\* parseTableAlignment ignoring the colons
ParseTableAlignment_AllLeft(separatorLine) ==
  [i \in 1..Len(ParseTableRow(separatorLine)) |-> "left"]

ParseTableAlignment(separatorLine) ==
  LET cells == ParseTableRow(separatorLine)
  IN [i \in 1..Len(cells) |->
        LET trimmed == Trim(cells[i])
            hasLeftColon == StartsWith(trimmed, <<":">>)
            hasRightColon == EndsWith(trimmed, <<":">>)
        IN IF hasLeftColon /\ hasRightColon THEN "center"
           ELSE IF hasRightColon THEN "right"
           ELSE "left"]

\* the indent level rounded up
IndentLevel_Ceil(line) == (Len(line) - Len(TrimStart(line)) + 1) \div 2

\* Math.floor((line.length - line.trimStart().length) / 2)
IndentLevel(line) == (Len(line) - Len(TrimStart(line))) \div 2

\* ----------------------------------------------------------- parser: state

VARIABLES
  markdown,            \* the argument of parse: a character sequence or Null
  ver,                 \* which definition of parse runs: 1 (ParserState), 2 (inline state)
  pc,                  \* "start", "main", "fence", "table", "done"; "threw": parse raised
  lines,
  currentLineIndex,    \* state.currentLineIndex / currentLine
  tokens,
  paragraphLines,
  paragraphStartLine,
  inCodeBlock,
  codeBlockLines,      \* codeLines in tryParseCodeBlock
  codeBlockLanguage,   \* language in tryParseCodeBlock
  codeBlockStartLine,  \* startLine in tryParseCodeBlock
  inTable,
  tableAlignment       \* alignment in tryParseTable

parserVars ==
  <<markdown, ver, pc, lines, currentLineIndex, tokens, paragraphLines,
    paragraphStartLine, inCodeBlock, codeBlockLines, codeBlockLanguage,
    codeBlockStartLine, inTable, tableAlignment>>

VARIABLES
  inlineText,          \* the argument text of extractInlineFormatting
  inlineFormats,       \* formats
  pass,                \* which of the eight patterns is being applied (9: all done)
  regexLastIndex,      \* regex.lastIndex of the pattern being applied
  inlineResult,        \* what extractInlineFormatting returned
  ipc                  \* "idle", "extract", "dedup", "returned"

inlineVars ==
  <<inlineText, inlineFormats, pass, regexLastIndex, inlineResult, ipc>>

VARIABLES
  ctokens,             \* the argument tokens of convert: a token sequence or NullTokens
  baseDir,             \* the argument baseDir of convert: a directory or Null
  cver,                \* which definition of convert runs: 1 (inline grouping), 2 (processList)
  cpc,                 \* "idle", "start", "loop", "await", "done"
  ci,                  \* i
  elements,
  metadata

converterVars == <<ctokens, baseDir, cver, cpc, ci, elements, metadata>>

VARIABLES
  calls                \* the invocations of convert in flight on one service, by caller

callVars == <<calls>>

otherVars == <<inlineVars, converterVars, callVars>>

\* extractInlineFormatting is not running on its own
InlineIdle ==
  /\ inlineText = <<>>
  /\ inlineFormats = <<>>
  /\ pass = 0
  /\ regexLastIndex = 0
  /\ inlineResult = <<>>
  /\ ipc = "idle"

\* convert is not running
ConvertIdle ==
  /\ ctokens = <<>>
  /\ baseDir = Null
  /\ cver = 1
  /\ cpc = "idle"
  /\ ci = 0
  /\ elements = <<>>
  /\ metadata = Null

\* who invokes convert on the one service object
Callers == {"A", "B"}

\* the local variables of one invocation of convert that has not started
\* (again: it is the caller's second invocation; first: what the first returned)
NewCall(toks, dir) ==
  [tokens |-> toks, dir |-> dir, pc |-> "idle", i |-> 0, elements |-> <<>>,
   metadata |-> Null, loads |-> <<>>, overlapped |-> FALSE, again |-> FALSE,
   first |-> <<>>]

\* nobody invokes convert concurrently
CallsIdle == calls = [k \in Callers |-> NewCall(<<>>, Null)]

vars == <<parserVars, otherVars>>

\* ------------------------------------------------------------ parser: input

L_empty == <<>>
L_spaces == <<" ", " ">>
L_tab == <<"\t">>
L_text == <<"a">>
L_fence == Fence
L_fenceLang == Fence \o <<"j", "a", "v", "a", "s", "c", "r", "i", "p", "t">>
L_code == <<"c", "o", "n", "s", "t", " ", "x", " ", "=", " ", "1", ";">>
L_heading == <<"#", " ", "h">>
L_ul == <<"-", " ", "a">>
L_ol == <<"1", ".", " ", "a">>
L_ulNested == <<" ", " ", "-", " ", "n">>
L_indent2 == <<" ", " ", "b">>
L_indent4 == <<" ", " ", " ", " ", "c">>
L_hr == <<"-", "-", "-">>
L_quote == <<">", " ", "q">>
L_image == <<"!", "[", "i", "]", "(", "u", ")">>
L_tableHead == <<"|", "x", "|", "y", "|">>
L_tableSep == <<"|", "-", "|", "-", "|">>
L_tableRow == <<"1", "|", "2">>
L_tableSepAligned ==
  <<"|", " ", ":", "-", "-", "-", " ", "|", " ", ":", "-", "-", "-", ":",
    " ", "|", " ", "-", "-", "-", ":", " ", "|">>

\* The line alphabets the inputs are built from, one per group of constructs.
Pools ==
  { {L_empty, L_spaces, L_tab, L_text},
    {L_fence, L_fenceLang, L_code, L_heading, L_empty},
    {L_ul, L_ol, L_ulNested, L_indent2, L_indent4, L_text, L_empty},
    {L_tableHead, L_tableSep, L_tableSepAligned, L_tableRow, L_text, L_empty,
     L_fence},
    {L_hr, L_heading, L_quote, L_image, L_text, L_ul} }

\* the sequences over P of 1..n lines
SeqsUpTo(P, n) == UNION {[1..k -> P] : k \in 1..n}

L_tableRowShort == <<"|", "1", "|">>
L_tableRowLong == <<"1", "|", "2", " ", "|", "3">>

\* a table: a header, a separator and up to MaxLines - 1 rows of one, two or
\* three cells
TableInputs ==
  {<<L_tableHead, sep>> \o rows :
     sep \in {L_tableSep, L_tableSepAligned},
     rows \in SeqsUpTo({L_tableRow, L_tableRowShort, L_tableRowLong}, MaxLines - 1)}

L_loneStar == <<"a", " ", "*", "b">>
L_loneUnder == <<"_", "a">>
L_loneTick == <<"a", BQ, "b">>
L_openLink == <<"[", "t", "]", "(", "u">>

\* paragraphs of lines that each hold one marker without its partner
UnmatchedInputs ==
  SeqsUpTo({L_loneStar, L_loneUnder, L_loneTick, L_openLink, L_text, L_empty}, MaxLines)

L_headingPipe == <<"#", " ", "h", "|", "x">>
L_quotePipe == <<">", " ", "q", "|", "x">>
L_ulPipe == <<"-", " ", "a", " ", "|", " ", "b">>
L_olPipe == <<"2", ".", " ", "a", "|", "b">>
L_hrStars == <<"*", "*", "*">>
L_quoteHeading == <<">", " ", "#", " ", "x">>

\* lines that satisfy several predicates of the dispatch chain, alone or
\* after a table header and its separator
DispatchInputs ==
  {pre \o rest :
     pre \in {<<>>, <<L_tableHead, L_tableSep>>},
     rest \in SeqsUpTo({L_headingPipe, L_quotePipe, L_ulPipe, L_olPipe, L_hrStars,
                        L_quoteHeading, L_hr}, MaxLines - 1)}

L_tableHeadWide == <<"|", "p", "|", "q", "|", "r", "|">>

TableSamples ==
  { <<L_tableHead, L_tableSep, L_tableRow>>,
    <<L_tableHeadWide, L_tableSepAligned, L_tableRowLong>> }

\* two tables with nothing but blank lines between them
TwoTableInputs ==
  {first \o blanks \o second :
     first \in TableSamples, second \in TableSamples,
     blanks \in {<<L_empty>>, <<L_empty, L_spaces>>}}

\* one list item, ordered or unordered, behind 0 to MaxIndent spaces and tabs
IndentedItemInputs ==
  {<<indent \o item>> :
     indent \in UNION {[1..k -> {" ", "\t"}] : k \in 0..MaxIndent},
     item \in {L_ul, L_ol}}

L_ulEmpty == <<"-", " ">>
L_olEmpty == <<"2", ".", " ">>

\* lists with items that hold nothing after the marker and its white space
EmptyItemInputs == SeqsUpTo({L_ul, L_ol, L_ulEmpty, L_olEmpty}, MaxLines)

L_noSpace == <<"#", "N", "o", "S", "p", "a", "c", "e">>
L_sevenHashes == <<"#", "#", "#", "#", "#", "#", "#", " ", "x">>
L_sixHashes == <<"#", "#", "#", "#", "#", "#", " ", "x">>
L_hashTab == <<"#", "\t", "x">>

\* one-line inputs of hashes, spaces and text, and the named heading samples
HeadingInputs ==
  {<<l>> : l \in UNION {[1..k -> {"#", " ", "a"}] : k \in 1..MaxTextLen}}
    \cup SeqsUpTo({L_noSpace, L_sevenHashes, L_sixHashes, L_hashTab, L_text}, MaxLines)

\* lines of every construct, to stand between two fence lines
FenceBodyPool ==
  {L_heading, L_ulNested, L_tableRow, L_quote, L_hr, L_image, L_text, L_indent4,
   L_spaces, L_empty}

\* a fenced block: an opening fence, up to MaxLines - 1 lines, a closing fence
FencedInputs ==
  {<<o>> \o body \o <<L_fence>> :
     o \in {L_fence, L_fenceLang},
     body \in {<<>>} \cup SeqsUpTo(FenceBodyPool, MaxLines - 1)}

Inputs ==
  UNION {SeqsUpTo(P, MaxLines) : P \in Pools}
    \cup FencedInputs \cup TableInputs \cup HeadingInputs \cup UnmatchedInputs
    \cup DispatchInputs \cup TwoTableInputs \cup IndentedItemInputs
    \cup EmptyItemInputs

\* ------------------------------------------------------- parser: operations

ParagraphToken(text, line) ==
  [type |-> "PARAGRAPH", text |-> text,
   formatting |-> ExtractInlineFormatting(text), line |-> line]

\* ParserState.flushParagraph: the token list after the flush
\* a flush that puts the paragraph in front of the tokens
FlushParagraph_InFront(toks, pLines, pStart) ==
  IF Len(pLines) > 0
    THEN LET text == Trim(Join(pLines, <<NL>>))
         IN IF text # <<>> THEN <<ParagraphToken(text, pStart)>> \o toks ELSE toks
    ELSE toks

FlushParagraph(toks, pLines, pStart) ==
  IF Len(pLines) > 0
    THEN LET text == Trim(Join(pLines, <<NL>>))
         IN IF text # <<>> THEN Append(toks, ParagraphToken(text, pStart)) ELSE toks
    ELSE toks

Flushed == FlushParagraph(tokens, paragraphLines, paragraphStartLine)

\* a code block whose lines are trimmed before they are joined
CodeBlockToken_Trimmed(language, codeLines, line) ==
  [type |-> "CODE_BLOCK", language |-> language,
   code |-> Join([k \in 1..Len(codeLines) |-> Trim(codeLines[k])], <<NL>>),
   line |-> line]

CodeBlockToken(language, codeLines, line) ==
  [type |-> "CODE_BLOCK", language |-> language,
   code |-> Join(codeLines, <<NL>>), line |-> line]

\* trimmed.slice(3).trim() || null
FenceLanguage(trimmed) ==
  LET l == Trim(Slice(trimmed, 3)) IN IF l = <<>> THEN Null ELSE l

hasMoreLines == currentLineIndex < Len(lines)
currentLine == lines[currentLineIndex + 1]
trimmedLine == Trim(currentLine)

\* state.nextLine?.trim() || ""
nextLineTrimmed ==
  IF currentLineIndex + 1 < Len(lines) THEN Trim(lines[currentLineIndex + 2]) ELSE <<>>

\* The construct the dispatch chain of the main loop selects for a trimmed
\* line (the fence test comes first, the paragraph last).
Classify(trimmed) ==
  IF StartsWith(trimmed, Fence) THEN "fence"
  ELSE IF trimmed = <<>> THEN "blank"
  ELSE IF IsHorizontalRule(trimmed) THEN "hr"
  ELSE IF HeadingMatch(trimmed).found THEN "heading"
  ELSE IF StartsWith(trimmed, <<">">>) THEN "blockquote"
  ELSE IF UnorderedMatch(trimmed) # Null THEN "unordered"
  ELSE IF OrderedMatch(trimmed) # Null THEN "ordered"
  ELSE IF ImageMatch(trimmed).found THEN "image"
  ELSE IF Includes(trimmed, "|") THEN "pipe"
  ELSE "text"

\* the main loop is at a line that is outside a fence
AtLine(kind) ==
  /\ pc = "main" /\ hasMoreLines /\ ~inCodeBlock
  /\ Classify(trimmedLine) = kind

fenceVars == <<inCodeBlock, codeBlockLines, codeBlockLanguage, codeBlockStartLine>>
inputVars == <<markdown, ver, lines>>

\* a block handler's effect: flush the paragraph, push the token, advance
EmitBlock(token) ==
  /\ tokens' = Append(Flushed, token)
  /\ paragraphLines' = <<>>
  /\ currentLineIndex' = currentLineIndex + 1
  /\ inTable' = FALSE
  /\ UNCHANGED <<inputVars, pc, paragraphStartLine, fenceVars, tableAlignment, otherVars>>

\* ParseStart without its guard: split is called on whatever was passed, and
\* calling it on null raises a TypeError.
ParseStart_NoGuard ==
  /\ pc = "start"
  /\ IF markdown = Null
       THEN pc' = "threw" /\ lines' = lines
       ELSE pc' = "main" /\ lines' = Split(markdown, NL)
  /\ UNCHANGED <<markdown, ver, currentLineIndex, tokens, paragraphLines,
                 paragraphStartLine, fenceVars, inTable, tableAlignment, otherVars>>

\* if (!markdown || !markdown.trim()) return []; lines = markdown.split("\n")
ParseStart ==
  /\ pc = "start"
  /\ IF markdown = Null \/ markdown = <<>> \/ Trim(markdown) = <<>>
       THEN pc' = "done" /\ lines' = lines
       ELSE pc' = "main" /\ lines' = Split(markdown, NL)
  /\ UNCHANGED <<markdown, ver, currentLineIndex, tokens, paragraphLines,
                 paragraphStartLine, fenceVars, inTable, tableAlignment, otherVars>>

\* BlankLine without its state.advance()
BlankLine_NoAdvance ==
  /\ AtLine("blank")
  /\ tokens' = Flushed
  /\ paragraphLines' = <<>>
  /\ inTable' = FALSE
  /\ UNCHANGED <<inputVars, pc, currentLineIndex, paragraphStartLine, fenceVars,
                 tableAlignment, otherVars>>

\* the blank-line branch: flush the paragraph and advance
BlankLine ==
  /\ AtLine("blank")
  /\ tokens' = Flushed
  /\ paragraphLines' = <<>>
  /\ currentLineIndex' = currentLineIndex + 1
  /\ inTable' = FALSE
  /\ UNCHANGED <<inputVars, pc, paragraphStartLine, fenceVars, tableAlignment, otherVars>>

HorizontalRule ==
  /\ AtLine("hr")
  /\ EmitBlock([type |-> "HORIZONTAL_RULE", line |-> currentLineIndex])

HeadingToken(trimmed, line) ==
  LET m == HeadingMatch(trimmed)
      text == Trim(m.text)
  IN [type |-> "HEADING", level |-> m.level, text |-> text,
      formatting |-> ExtractInlineFormatting(text), line |-> line]

Heading ==
  /\ AtLine("heading")
  /\ EmitBlock(HeadingToken(trimmedLine, currentLineIndex))

BlockquoteToken(trimmed, line) ==
  LET text == Trim(Slice(trimmed, 1))
  IN [type |-> "BLOCKQUOTE", text |-> text,
      formatting |-> ExtractInlineFormatting(text), line |-> line]

Blockquote ==
  /\ AtLine("blockquote")
  /\ EmitBlock(BlockquoteToken(trimmedLine, currentLineIndex))

ListItemToken(ordered, captured, originalLine, line) ==
  LET text == Trim(captured)
  IN [type |-> "LIST_ITEM", ordered |-> ordered, text |-> text,
      level |-> IndentLevel(originalLine),
      formatting |-> ExtractInlineFormatting(text), line |-> line]

\* UnorderedList taking the next line into the item whenever that line is
\* plain text, whatever its indentation
UnorderedList_Absorbing ==
  /\ AtLine("unordered")
  /\ LET own == ListItemToken(FALSE, UnorderedMatch(trimmedLine), currentLine,
                              currentLineIndex)
         absorbs == nextLineTrimmed # <<>> /\ Classify(nextLineTrimmed) = "text"
         text == IF absorbs THEN own.text \o <<" ">> \o nextLineTrimmed ELSE own.text
     IN /\ tokens' = Append(Flushed, [own EXCEPT !.text = text])
        /\ currentLineIndex' = currentLineIndex + (IF absorbs THEN 2 ELSE 1)
  /\ paragraphLines' = <<>>
  /\ inTable' = FALSE
  /\ UNCHANGED <<inputVars, pc, paragraphStartLine, fenceVars, tableAlignment, otherVars>>

\* tryParseList: the item is its own line only; the cursor advances by one
UnorderedList ==
  /\ AtLine("unordered")
  /\ EmitBlock(ListItemToken(FALSE, UnorderedMatch(trimmedLine), currentLine,
                             currentLineIndex))

OrderedList ==
  /\ AtLine("ordered")
  /\ EmitBlock(ListItemToken(TRUE, OrderedMatch(trimmedLine), currentLine,
                             currentLineIndex))

ImageToken(trimmed, line) ==
  LET m == ImageMatch(trimmed)
  IN [type |-> "IMAGE", alt |-> m.alt, url |-> m.url, line |-> line]

Image ==
  /\ AtLine("image")
  /\ EmitBlock(ImageToken(trimmedLine, currentLineIndex))

TableRowToken(cells, isHeader, alignment, line) ==
  [type |-> "TABLE_ROW", cells |-> cells, isHeader |-> isHeader,
   alignment |-> alignment, line |-> line]

\* the branch a pipe line takes: the header of a table when the next line is a
\* separator (in the second definition only when no table is open), a data row
\* while the second definition has a table open, the paragraph otherwise
PipeBranch ==
  IF IsTableSeparator(nextLineTrimmed) /\ (ver = 2 => ~inTable) THEN "header"
  ELSE IF ver = 2 /\ inTable THEN "row"
  ELSE "paragraph"

\* the header branch of tryParseTable / of the TABLE section: the header token
\* is pushed and the cursor skips the header and the separator
TableHeader ==
  /\ AtLine("pipe") /\ PipeBranch = "header"
  /\ tokens' = Append(Flushed,
       TableRowToken(ParseTableRow(trimmedLine), TRUE,
                     ParseTableAlignment(nextLineTrimmed), currentLineIndex))
  /\ paragraphLines' = <<>>
  /\ tableAlignment' = ParseTableAlignment(nextLineTrimmed)
  /\ currentLineIndex' = currentLineIndex + 2
  /\ IF ver = 1 THEN pc' = "table" /\ inTable' = inTable
                ELSE pc' = pc /\ inTable' = TRUE
  /\ UNCHANGED <<inputVars, paragraphStartLine, fenceVars, otherVars>>

\* the data-row loop of tryParseTable goes on: a line is left, it holds a pipe
\* and it is no separator
TableLoopContinues ==
  hasMoreLines /\ Includes(trimmedLine, "|") /\ ~IsTableSeparator(trimmedLine)

\* first definition: the data-row loop of tryParseTable, one iteration
V1_TableRow ==
  /\ ver = 1 /\ pc = "table" /\ TableLoopContinues
  /\ tokens' = Append(tokens,
       TableRowToken(ParseTableRow(trimmedLine), FALSE, tableAlignment,
                     currentLineIndex))
  /\ currentLineIndex' = currentLineIndex + 1
  /\ UNCHANGED <<inputVars, pc, paragraphLines, paragraphStartLine, fenceVars,
                 inTable, tableAlignment, otherVars>>

\* first definition: the data-row loop ends (end of input, or break) and
\* tryParseTable returns true
V1_TableEnd ==
  /\ ver = 1 /\ pc = "table" /\ ~TableLoopContinues
  /\ pc' = "main"
  /\ UNCHANGED <<inputVars, currentLineIndex, tokens, paragraphLines,
                 paragraphStartLine, fenceVars, inTable, tableAlignment, otherVars>>

\* second definition: a pipe line while a table is open is a data row
V2_TableRow ==
  /\ ver = 2 /\ AtLine("pipe") /\ PipeBranch = "row"
  /\ tokens' = Append(tokens,
       TableRowToken(ParseTableRow(trimmedLine), FALSE, tableAlignment,
                     currentLineIndex))
  /\ currentLineIndex' = currentLineIndex + 1
  /\ UNCHANGED <<inputVars, pc, paragraphLines, paragraphStartLine, fenceVars,
                 inTable, tableAlignment, otherVars>>

\* the default: the line joins the paragraph buffer
Paragraph ==
  /\ \/ AtLine("text")
     \/ AtLine("pipe") /\ PipeBranch = "paragraph"
  /\ paragraphStartLine' =
       IF Len(paragraphLines) = 0 THEN currentLineIndex ELSE paragraphStartLine
  /\ paragraphLines' = Append(paragraphLines, currentLine)
  /\ currentLineIndex' = currentLineIndex + 1
  /\ inTable' = FALSE
  /\ UNCHANGED <<inputVars, pc, tokens, fenceVars, tableAlignment, otherVars>>

\* first definition, tryParseCodeBlock up to its loop: the opening fence
V1_FenceOpen ==
  /\ ver = 1 /\ AtLine("fence")
  /\ tokens' = Flushed
  /\ paragraphLines' = <<>>
  /\ codeBlockLanguage' = FenceLanguage(trimmedLine)
  /\ codeBlockStartLine' = currentLineIndex
  /\ codeBlockLines' = <<>>
  /\ currentLineIndex' = currentLineIndex + 1
  /\ pc' = "fence"
  /\ UNCHANGED <<inputVars, paragraphStartLine, inCodeBlock, inTable,
                 tableAlignment, otherVars>>

\* first definition, one iteration of the loop of tryParseCodeBlock
V1_FenceLine ==
  /\ ver = 1 /\ pc = "fence" /\ hasMoreLines
  /\ IF StartsWith(trimmedLine, Fence)
       THEN /\ tokens' = Append(tokens,
                 CodeBlockToken(codeBlockLanguage, codeBlockLines, codeBlockStartLine))
            /\ pc' = "main"
            /\ codeBlockLines' = codeBlockLines
       ELSE /\ codeBlockLines' = Append(codeBlockLines, currentLine)
            /\ UNCHANGED <<tokens, pc>>
  /\ currentLineIndex' = currentLineIndex + 1
  /\ UNCHANGED <<inputVars, paragraphLines, paragraphStartLine, inCodeBlock,
                 codeBlockLanguage, codeBlockStartLine, inTable, tableAlignment,
                 otherVars>>

\* first definition, tryParseCodeBlock after its loop: end of input inside
\* the fence
V1_FenceEnd ==
  /\ ver = 1 /\ pc = "fence" /\ ~hasMoreLines
  /\ tokens' = Append(tokens,
       CodeBlockToken(codeBlockLanguage, codeBlockLines, codeBlockStartLine))
  /\ pc' = "main"
  /\ UNCHANGED <<inputVars, currentLineIndex, paragraphLines, paragraphStartLine,
                 fenceVars, inTable, tableAlignment, otherVars>>

\* second definition, the CODE BLOCKS section: a fence line opens or closes
V2_Fence ==
  /\ ver = 2 /\ pc = "main" /\ hasMoreLines
  /\ StartsWith(trimmedLine, Fence)
  /\ paragraphLines' = <<>>
  /\ inTable' = FALSE
  /\ IF ~inCodeBlock
       THEN /\ inCodeBlock' = TRUE
            /\ codeBlockLanguage' = FenceLanguage(trimmedLine)
            /\ codeBlockLines' = <<>>
            /\ codeBlockStartLine' = currentLineIndex
            /\ tokens' = Flushed
       ELSE /\ tokens' = Append(Flushed,
                 CodeBlockToken(codeBlockLanguage, codeBlockLines, codeBlockStartLine))
            /\ inCodeBlock' = FALSE
            /\ codeBlockLines' = <<>>
            /\ codeBlockLanguage' = Null
            /\ codeBlockStartLine' = codeBlockStartLine
  /\ currentLineIndex' = currentLineIndex + 1
  /\ UNCHANGED <<inputVars, pc, paragraphStartLine, tableAlignment, otherVars>>

\* second definition: a line inside a code block is kept as it is
V2_InCodeBlock ==
  /\ ver = 2 /\ pc = "main" /\ hasMoreLines
  /\ ~StartsWith(trimmedLine, Fence) /\ inCodeBlock
  /\ codeBlockLines' = Append(codeBlockLines, currentLine)
  /\ currentLineIndex' = currentLineIndex + 1
  /\ UNCHANGED <<inputVars, pc, tokens, paragraphLines, paragraphStartLine,
                 inCodeBlock, codeBlockLanguage, codeBlockStartLine, inTable,
                 tableAlignment, otherVars>>

\* the tokens the second definition holds after "Handle unclosed code block
\* at end of file"
V2_UnclosedFlush(toks) ==
  IF inCodeBlock /\ Len(codeBlockLines) > 0
    THEN Append(toks, CodeBlockToken(codeBlockLanguage, codeBlockLines, codeBlockStartLine))
    ELSE toks

\* after the main loop: the last flush, and parse returns tokens
ParseFinish ==
  /\ pc = "main" /\ ~hasMoreLines
  /\ tokens' = FlushParagraph(IF ver = 2 THEN V2_UnclosedFlush(tokens) ELSE tokens,
                              paragraphLines, paragraphStartLine)
  /\ paragraphLines' = <<>>
  /\ pc' = "done"
  /\ UNCHANGED <<inputVars, currentLineIndex, paragraphStartLine, fenceVars,
                 inTable, tableAlignment, otherVars>>

ParseInit ==
  /\ markdown \in {Null} \cup {Join(ls, <<NL>>) : ls \in Inputs}
  /\ ver \in {1, 2}
  /\ pc = "start"
  /\ lines = <<>>
  /\ currentLineIndex = 0
  /\ tokens = <<>>
  /\ paragraphLines = <<>>
  /\ paragraphStartLine = 0
  /\ inCodeBlock = FALSE
  /\ codeBlockLines = <<>>
  /\ codeBlockLanguage = Null
  /\ codeBlockStartLine = 0
  /\ inTable = FALSE
  /\ tableAlignment = Null

ParseIdle ==
  /\ markdown = Null
  /\ ver = 1
  /\ pc = "idle"
  /\ lines = <<>>
  /\ currentLineIndex = 0
  /\ tokens = <<>>
  /\ paragraphLines = <<>>
  /\ paragraphStartLine = 0
  /\ inCodeBlock = FALSE
  /\ codeBlockLines = <<>>
  /\ codeBlockLanguage = Null
  /\ codeBlockStartLine = 0
  /\ inTable = FALSE
  /\ tableAlignment = Null

Init == ParseInit /\ InlineIdle /\ ConvertIdle /\ CallsIdle

Next ==
  \/ ParseStart
  \/ BlankLine
  \/ HorizontalRule
  \/ Heading
  \/ Blockquote
  \/ UnorderedList
  \/ OrderedList
  \/ Image
  \/ TableHeader
  \/ V1_TableRow
  \/ V1_TableEnd
  \/ V2_TableRow
  \/ Paragraph
  \/ V1_FenceOpen
  \/ V1_FenceLine
  \/ V1_FenceEnd
  \/ V2_Fence
  \/ V2_InCodeBlock
  \/ ParseFinish

Spec == Init /\ [][Next]_vars

\* ------------------------------------------------------------ parser claims

IsFenceLine(l) == StartsWith(Trim(l), Fence)

TokensOfType(ty) == {i \in 1..Len(tokens) : tokens[i].type = ty}

\* the token emitted for 0-based source line n, if any
TokensAtLine(n) == {i \in 1..Len(tokens) : tokens[i].line = n}

IsEmptyInput ==
  markdown = Null \/ \A i \in 1..Len(markdown) : markdown[i] \in WS

\* C1: parse returns an empty token list for the empty string, for input made
\* only of white space and for null/undefined input, and raises no error: on
\* such input parse goes from its entry straight to its return, with no token.
C1_EmptyInputNoTokens ==
  IsEmptyInput => pc \in {"start", "done"} /\ tokens = <<>>

C1_Witness ==
  /\ pc = "done" /\ tokens = <<>>
  /\ markdown # Null /\ Includes(markdown, " ") /\ Includes(markdown, NL)
  /\ IsEmptyInput

\* a step of one of the three loops (main loop, code-fence loop, table-row
\* loop) that runs the loop body
LoopIteration ==
  /\ pc \in {"main", "fence", "table"}
  /\ hasMoreLines
  /\ pc = "table" => TableLoopContinues

\* a measure of the work left: the lines not yet consumed, and within a line
\* the nested loop still to be left
Rank ==
  CASE pc = "done" -> 0
    [] pc = "main" -> 3 * (Len(lines) - currentLineIndex) + 1
    [] pc \in {"fence", "table"} -> 3 * (Len(lines) - currentLineIndex) + 2
    [] OTHER -> 0

\* C2: parse terminates for every input: every iteration of the main loop and
\* of the nested code-fence and table-row loops moves the line cursor forward,
\* the cursor never passes the number of lines, every step after the entry
\* lowers a measure that cannot fall below zero, no error is raised, and when
\* parse has returned from its loop the cursor is at the number of lines.
C2_ParseTerminates ==
  /\ [][LoopIteration => currentLineIndex' > currentLineIndex]_vars
  /\ [][pc # "start" => Rank' < Rank]_vars
  /\ [](/\ currentLineIndex <= Len(lines)
        /\ Rank >= 0
        /\ pc # "threw"
        /\ (pc = "done" /\ ~IsEmptyInput => currentLineIndex = Len(lines)))

C2_Witness ==
  /\ pc = "done" /\ ver = 1 /\ currentLineIndex = Len(lines)
  /\ TokensOfType("TABLE_ROW") # {} /\ TokensOfType("CODE_BLOCK") # {}

\* the 1-based indices of the fence lines of the input
FenceLines == {i \in 1..Len(lines) : IsFenceLine(lines[i])}

\* a fence is open at the end of the input: the fence lines pair up as opening
\* and closing, so the last of an odd number of them is never closed
UnclosedFence == Cardinality(FenceLines) % 2 = 1

LastFence == CHOOSE f \in FenceLines : \A g \in FenceLines : g <= f

\* C3: when a code fence is opened and never closed, parse emits exactly one
\* CodeBlock token for it at end of input: the last token, carrying the
\* language tag of the opening line (null if none) and all the lines after
\* the opening line joined by newlines (the empty string when there is none).
C3_UnclosedFenceFlushed ==
  (pc = "done" /\ markdown # Null /\ lines # <<>> /\ UnclosedFence) =>
     /\ tokens # <<>>
     /\ tokens[Len(tokens)] =
          CodeBlockToken(FenceLanguage(Trim(lines[LastFence])),
                         SubSeq(lines, LastFence + 1, Len(lines)),
                         LastFence - 1)
     /\ Cardinality(TokensAtLine(LastFence - 1)) = 1

\* a list item line: the captured item text, or Null
ItemText(l) ==
  IF Classify(Trim(l)) = "unordered" THEN Trim(UnorderedMatch(Trim(l)))
  ELSE IF Classify(Trim(l)) = "ordered" THEN Trim(OrderedMatch(Trim(l)))
  ELSE Null

LeadingSpaces(l) == Len(l) - Len(TrimStart(l))

\* line l continues a list item of nesting level L
IsContinuation(l, L) ==
  /\ Classify(Trim(l)) \in {"text", "image", "pipe"}
  /\ LeadingSpaces(l) >= (L + 1) * 2

\* C4: a line that directly follows the first line of a list item of level L,
\* is non-blank, is no list item, heading, fence, blockquote or rule and is
\* indented by at least (L+1)*2 spaces yields no token of its own, and the
\* item's text is the first line's text, a single space, and the trimmed
\* continuation.
C4_ContinuationJoined ==
  (pc = "done" /\ lines # <<>> /\ FenceLines = {}) =>
    \A i \in 1..(Len(lines) - 1) :
      (ItemText(lines[i]) # Null /\ IsContinuation(lines[i + 1], IndentLevel(lines[i]))) =>
         /\ TokensAtLine(i) = {}
         /\ \E t \in TokensAtLine(i - 1) :
              /\ tokens[t].type = "LIST_ITEM"
              /\ StartsWith(tokens[t].text,
                            ItemText(lines[i]) \o <<" ">> \o Trim(lines[i + 1]))

\* the line after 1-based line i cannot continue an item of level L
StopsItem(i, L) ==
  \/ i = Len(lines)
  \/ Trim(lines[i + 1]) = <<>>
  \/ LeadingSpaces(lines[i + 1]) < (L + 1) * 2

\* C5: a list item's text never absorbs a line that follows a blank line or a
\* line indented by fewer than (level+1)*2 spaces: an item followed by such a
\* line keeps the text of its first line only, and an item, an optional blank
\* line and an unindented text line give exactly one ListItem and then
\* exactly one Paragraph.
C5_NoAbsorption ==
  (pc = "done" /\ lines # <<>>) =>
    /\ \A t \in TokensOfType("LIST_ITEM") :
         StopsItem(tokens[t].line + 1, tokens[t].level) =>
           tokens[t].text = ItemText(lines[tokens[t].line + 1])
    /\ \A mid \in {<<>>, <<L_empty>>} :
         (/\ Len(lines) = 2 + Len(mid)
          /\ ItemText(lines[1]) # Null
          /\ SubSeq(lines, 2, Len(lines) - 1) = mid
          /\ Classify(Trim(lines[Len(lines)])) = "text"
          /\ LeadingSpaces(lines[Len(lines)]) < 2)
         => /\ Len(tokens) = 2
            /\ tokens[1].type = "LIST_ITEM" /\ tokens[1].text = ItemText(lines[1])
            /\ tokens[2].type = "PARAGRAPH"
            /\ tokens[2].text = Trim(lines[Len(lines)])

C5_Witness ==
  /\ pc = "done"
  /\ lines = <<L_ul, L_empty, L_text>>
  /\ Len(tokens) = 2 /\ tokens[1].type = "LIST_ITEM" /\ tokens[2].type = "PARAGRAPH"

\* the alignment the colons of a separator cell stand for
CellAlignment(cell) ==
  LET c == Trim(cell)
  IN IF c[1] = ":" /\ c[Len(c)] = ":" THEN "center"
     ELSE IF c[Len(c)] = ":" THEN "right"
     ELSE "left"

\* the header token of the table that the data row token t belongs to
HeaderOf(t) ==
  {h \in 1..(t - 1) :
     /\ tokens[h].type = "TABLE_ROW" /\ tokens[h].isHeader
     /\ \A m \in (h + 1)..t : tokens[m].type = "TABLE_ROW" /\ ~tokens[m].isHeader}

\* C12: a table header is recognised only when the next line is a separator;
\* its alignment has one entry per separator cell (center for a colon on both
\* sides, right for a colon on the right only, left otherwise); every data
\* row carries the alignment of its header; "| :--- | :---: | ---: |" gives
\* left, center, right and a two-column separator without colons left, left.
C12_HeaderAlignment ==
  (pc = "done" /\ lines # <<>>) =>
    \A t \in TokensOfType("TABLE_ROW") :
      IF tokens[t].isHeader
        THEN /\ tokens[t].line + 2 <= Len(lines)
             /\ LET sep == Trim(lines[tokens[t].line + 2])
                    cells == ParseTableRow(sep)
                IN /\ IsTableSeparator(sep)
                   /\ Len(tokens[t].alignment) = Len(cells)
                   /\ \A i \in 1..Len(cells) :
                        tokens[t].alignment[i] = CellAlignment(cells[i])
                   /\ sep = L_tableSepAligned =>
                        tokens[t].alignment = <<"left", "center", "right">>
                   /\ sep = L_tableSep => tokens[t].alignment = <<"left", "left">>
        ELSE \E h \in HeaderOf(t) : tokens[t].alignment = tokens[h].alignment

C12_Witness ==
  /\ pc = "done"
  /\ lines = <<L_tableHead, L_tableSepAligned, L_tableRow>>
  /\ Len(tokens) = 2
  /\ tokens[1].alignment = <<"left", "center", "right">>
  /\ tokens[2].alignment = <<"left", "center", "right">>

\* the 1-based fence lines that open a block: the first, third, ... of them
OpeningFences ==
  {f \in FenceLines : Cardinality({g \in FenceLines : g <= f}) % 2 = 1}

\* the fence line that closes the block opened at line o, or 0 when none does
ClosingFence(o) ==
  IF \E g \in FenceLines : g > o
    THEN CHOOSE c \in FenceLines : c > o /\ \A g \in FenceLines : g > o => c <= g
    ELSE 0

\* C17: lines between an opening fence and its closing fence are never
\* classified: no token of any type is emitted for them (or for the closing
\* line), and the one token emitted for the opening line is a CodeBlock
\* whose code is exactly those lines, untrimmed and in order, joined by
\* newlines.
C17_FenceInteriorVerbatim ==
  (pc = "done" /\ lines # <<>>) =>
    \A o \in OpeningFences :
      LET c == ClosingFence(o)
      IN c # 0 =>
           /\ \A t \in 1..Len(tokens) : ~(tokens[t].line >= o /\ tokens[t].line <= c - 1)
           /\ \E t \in 1..Len(tokens) :
                /\ TokensAtLine(o - 1) = {t}
                /\ tokens[t].type = "CODE_BLOCK"
                /\ tokens[t].code = Join(SubSeq(lines, o + 1, c - 1), <<NL>>)

C17_Witness ==
  /\ pc = "done"
  /\ lines = <<L_fenceLang, L_heading, L_indent4, L_fence>>
  /\ Len(tokens) = 1
  /\ tokens[1].code = L_heading \o <<NL>> \o L_indent4

\* the number of # characters a line starts with, once trimmed
Hashes(l) == LeadingCount(Trim(l), {"#"})

\* 1 to 6 # characters, then a white-space character, then non-empty text
HeadingForm(l) ==
  LET t == Trim(l)
      n == Hashes(l)
  IN /\ n \in 1..6
     /\ Len(t) > n + 1
     /\ t[n + 1] \in WS
     /\ \E k \in (n + 2)..Len(t) : t[k] \notin WS

\* C19: a line gives a Heading token only when its trimmed form is 1 to 6 #
\* characters, then at least one white-space character, then non-empty text;
\* the level is the number of # characters, always in 1..6, and the text is
\* not empty; a line that starts with # without that form (#NoSpace, seven #
\* characters) alone in the input gives one Paragraph holding the line.
C19_HeadingForm ==
  (pc = "done" /\ lines # <<>>) =>
    /\ \A t \in TokensOfType("HEADING") :
         LET l == lines[tokens[t].line + 1]
         IN /\ HeadingForm(l)
            /\ tokens[t].level = Hashes(l)
            /\ tokens[t].level \in 1..6
            /\ tokens[t].text # <<>>
    /\ \A r \in 1..Len(lines) :
         lines[r] \in {L_noSpace, L_sevenHashes} =>
           \A t \in TokensAtLine(r - 1) : tokens[t].type = "PARAGRAPH"
    /\ (Len(lines) = 1 /\ Hashes(lines[1]) >= 1 /\ ~HeadingForm(lines[1])) =>
         /\ Len(tokens) = 1
         /\ tokens[1].type = "PARAGRAPH"
         /\ tokens[1].text = Trim(lines[1])

C19_Witness ==
  /\ pc = "done"
  /\ lines = <<L_sevenHashes, L_sixHashes, L_noSpace>>
  /\ Len(tokens) = 3
  /\ tokens[1].type = "PARAGRAPH" /\ tokens[1].text = L_sevenHashes
  /\ tokens[2].type = "HEADING" /\ tokens[2].level = 6
  /\ tokens[3].type = "PARAGRAPH" /\ tokens[3].text = L_noSpace

\* how many times character c occurs in s
Count(s, c) == Cardinality({i \in 1..Len(s) : s[i] = c})

\* the tokens that carry text and formatting
TextTokens ==
  {t \in 1..Len(tokens) :
     tokens[t].type \in {"PARAGRAPH", "HEADING", "BLOCKQUOTE", "LIST_ITEM"}}

RECURSIVE CountInTokens(_, _)
CountInTokens(t, c) ==
  IF t = 0 THEN 0 ELSE Count(tokens[t].text, c) + CountInTokens(t - 1, c)

\* C21: a marker without its partner gives no span and stays in the text:
\* in a token text that holds exactly one *, one _ or one backquote no span
\* starts or ends at that character, a token text without ) has no link
\* span, input made of plain text lines keeps every marker character in its
\* paragraph texts, and parse raises no error.
C21_UnmatchedMarkersLiteral ==
  /\ pc # "threw"
  /\ (pc = "done" /\ lines # <<>>) =>
       /\ \A t \in TextTokens :
            LET text == tokens[t].text
                spans == tokens[t].formatting
            IN /\ \A c \in {"*", "_", BQ} :
                    Count(text, c) = 1 =>
                      \A k \in 1..Len(spans) :
                        text[spans[k].start + 1] # c /\ text[spans[k].end] # c
               /\ Count(text, ")") = 0 =>
                    \A k \in 1..Len(spans) : spans[k].type # "link"
       /\ (\A r \in 1..Len(lines) : Classify(Trim(lines[r])) \in {"text", "blank"}) =>
            /\ \A t \in 1..Len(tokens) : tokens[t].type = "PARAGRAPH"
            /\ \A c \in {"*", "_", BQ, "[", "]", "("} :
                 CountInTokens(Len(tokens), c) = Count(markdown, c)

C21_Witness ==
  /\ pc = "done"
  /\ lines = <<L_loneStar, L_loneTick, L_openLink>>
  /\ Len(tokens) = 1
  /\ tokens[1].formatting = <<>>
  /\ tokens[1].text = L_loneStar \o <<NL>> \o L_loneTick \o <<NL>> \o L_openLink

\* the token types the construct selected by the dispatch order may emit (a
\* pipe line is a table row, or a paragraph line when no table holds it)
TypesOf(kind) ==
  CASE kind = "fence" -> {"CODE_BLOCK"}
    [] kind = "hr" -> {"HORIZONTAL_RULE"}
    [] kind = "heading" -> {"HEADING"}
    [] kind = "blockquote" -> {"BLOCKQUOTE"}
    [] kind = "unordered" -> {"LIST_ITEM"}
    [] kind = "ordered" -> {"LIST_ITEM"}
    [] kind = "image" -> {"IMAGE"}
    [] kind = "pipe" -> {"TABLE_ROW", "PARAGRAPH"}
    [] kind = "text" -> {"PARAGRAPH"}
    [] OTHER -> {}

\* C22: the token emitted for a line is that of the first construct, in the
\* order code fence, horizontal rule, heading, blockquote, unordered item,
\* ordered item, image, table, paragraph, whose predicate the line
\* satisfies: no token carries the type of a later construct of that order,
\* also for a heading, blockquote or list line that holds a pipe and follows
\* a table header.
C22_FirstConstructWins ==
  (pc = "done" /\ lines # <<>>) =>
    \A t \in 1..Len(tokens) :
      tokens[t].type \in TypesOf(Classify(Trim(lines[tokens[t].line + 1])))

\* C28: the level of every ListItem token, ordered or unordered, is
\* floor(n / 2) where n is the number of leading white-space characters of
\* the item's source line (0 and 1 give 0, 2 and 3 give 1, 4 gives 2), and
\* is never negative.
C28_ListLevel ==
  (pc = "done" /\ lines # <<>>) =>
    \A t \in TokensOfType("LIST_ITEM") :
      LET n == LeadingCount(lines[tokens[t].line + 1], WS)
          level == tokens[t].level
      IN /\ level >= 0
         /\ 2 * level <= n /\ n < 2 * level + 2
         /\ n \in {0, 1} => level = 0
         /\ n \in {2, 3} => level = 1
         /\ n = 4 => level = 2

C28_Witness ==
  /\ pc = "done"
  /\ lines = <<<<" ", "\t", " ">> \o L_ol>>
  /\ Len(tokens) = 1
  /\ tokens[1].ordered /\ tokens[1].level = 1

\* C30: in the token list of parse the line attributes are strictly
\* increasing, at every moment and at the return: a pending paragraph is
\* flushed before the token of the block that interrupts it and carries the
\* line of its first line, a CodeBlock carries the line of its opening
\* fence, and every line attribute is a line of the input.
C30_LinesIncrease ==
  /\ \A i, j \in 1..Len(tokens) : i < j => tokens[i].line < tokens[j].line
  /\ \A t \in 1..Len(tokens) :
       /\ tokens[t].line >= 0 /\ tokens[t].line < Len(lines)
       /\ tokens[t].type = "CODE_BLOCK" => IsFenceLine(lines[tokens[t].line + 1])
       /\ tokens[t].type = "PARAGRAPH" =>
            Classify(Trim(lines[tokens[t].line + 1])) \in {"text", "pipe"}
  /\ paragraphLines # <<>> =>
       \A t \in 1..Len(tokens) : tokens[t].line < paragraphStartLine

C30_Witness ==
  /\ pc = "done"
  /\ Len(lines) = 3
  /\ Classify(Trim(lines[1])) = "text"
  /\ IsFenceLine(lines[2])
  /\ Len(tokens) = 2
  /\ tokens[1].type = "PARAGRAPH" /\ tokens[1].line = 0
  /\ tokens[2].type = "CODE_BLOCK" /\ tokens[2].line = 1

\* ------------------------------------------ inline format resolver: machine

T_tripleStar ==
  <<"*", "*", "*", "b", "o", "t", "h", "*", "*", "*">>

T_tripleUnder ==
  <<"_", "_", "_", "b", "o", "t", "h", "_", "_", "_">>

T_tripleInText ==
  <<"T", "e", "x", "t", " ", "w", "i", "t", "h", " ", "*", "*", "*", "b",
    "o", "l", "d", " ", "i", "t", "a", "l", "i", "c", "*", "*", "*", " ",
    "h", "e", "r", "e">>

T_mixed ==
  <<"*", "*", "b", "o", "l", "d", "*", "*", " ", "*", "i", "t", "a", "l",
    "i", "c", "*", " ", "*", "*", "*", "b", "o", "t", "h", "*", "*", "*">>

T_bold ==
  <<"T", "h", "i", "s", " ", "i", "s", " ", "*", "*", "b", "o", "l", "d",
    "*", "*", " ", "t", "e", "x", "t">>

T_boldUnder ==
  <<"T", "h", "i", "s", " ", "i", "s", " ", "_", "_", "b", "o", "l", "d",
    "_", "_", " ", "t", "e", "x", "t">>

T_code ==
  <<"T", "h", "i", "s", " ", "i", "s", " ", BQ, "c", "o", "d", "e", BQ, " ",
    "t", "e", "x", "t">>

T_link ==
  <<"C", "h", "e", "c", "k", " ", "o", "u", "t", " ", "[", "G", "o", "o",
    "g", "l", "e", "]", "(", "h", "t", "t", "p", "s", ":", "/", "/", "g",
    "o", "o", "g", "l", "e", ".", "c", "o", "m", ")">>

InlineSamples ==
  {T_tripleStar, T_tripleUnder, T_tripleInText, T_mixed, T_bold, T_boldUnder,
   T_code, T_link}

InlineAlphabet == {"*", "_", "a", NL}

T_linkNested == <<"[", "[", "a", "]", "(", "a", "(", ")", "a">>

\* texts of the shape pre [ x ] ( y ) post, where x may hold brackets and y
\* parentheses
LinkTexts ==
  {pre \o <<"[">> \o x \o <<"]", "(">> \o y \o <<")">> \o post :
     pre \in {<<>>, <<"a">>}, post \in {<<>>, <<"a">>},
     x \in UNION {[1..k -> {"a", "[", "]"}] : k \in 1..MaxLinkPart},
     y \in UNION {[1..k -> {"a", "(", ")"}] : k \in 1..MaxLinkPart}}

\* the texts extractInlineFormatting is run on
InlineTexts ==
  UNION {[1..k -> InlineAlphabet] : k \in 0..MaxTextLen}
    \cup InlineSamples \cup LinkTexts

\* extractInlineFormatting is entered: const formats = []
InlineInit ==
  /\ inlineText \in InlineTexts
  /\ inlineFormats = <<>>
  /\ pass = 1
  /\ regexLastIndex = 0
  /\ inlineResult = <<>>
  /\ ipc = "extract"

\* regex.exec(text) of the current pattern
CurrentExec == Exec(Patterns[pass], inlineText, regexLastIndex)

\* the body of the while loop of extractPattern (and of the link loop): the
\* match is pushed and the regex keeps the end of the match as lastIndex
InlineMatch ==
  /\ ipc = "extract"
  /\ CurrentExec.found
  /\ inlineFormats' = Append(inlineFormats, CurrentExec.format)
  /\ regexLastIndex' = CurrentExec.lastIndex
  /\ UNCHANGED <<inlineText, pass, inlineResult, ipc, parserVars, converterVars, callVars>>

\* exec returns null: the loop ends and the next pattern is applied from 0
InlineNoMatch ==
  /\ ipc = "extract"
  /\ ~CurrentExec.found
  /\ regexLastIndex' = 0
  /\ pass' = pass + 1
  /\ ipc' = IF pass = Len(Patterns) THEN "dedup" ELSE ipc
  /\ UNCHANGED <<inlineText, inlineFormats, inlineResult, parserVars, converterVars, callVars>>

\* return this.deduplicateFormats(formats); formats.sort sorts in place
InlineDeduplicate ==
  /\ ipc = "dedup"
  /\ inlineResult' = DeduplicateFormats(inlineFormats)
  /\ inlineFormats' =
       IF Len(inlineFormats) <= 1 THEN inlineFormats ELSE SortFormats(inlineFormats)
  /\ ipc' = "returned"
  /\ UNCHANGED <<inlineText, pass, regexLastIndex, parserVars, converterVars, callVars>>

InitInline == ParseIdle /\ InlineInit /\ ConvertIdle /\ CallsIdle

NextInline ==
  \/ InlineMatch
  \/ InlineNoMatch
  \/ InlineDeduplicate

SpecInline == InitInline /\ [][NextInline]_vars

\* ------------------------------------------- inline format resolver: claims

MarkerChars == {"*", "_", BQ, "[", "]", "(", ")"}

\* positions a..b of text hold no marker character
Plain(text, a, b) == \A i \in a..b : text[i] \notin MarkerChars

Span(type, start, end) == [type |-> type, start |-> start, end |-> end]

SpansOfType(type) == {i \in 1..Len(inlineResult) : inlineResult[i].type = type}

\* the 1-based <<first, last>> positions of a triple-marked region of text
\* whose content is plain and on one line, with plain text around it
TripleRegions(text) ==
  {r \in (1..Len(text)) \X (1..Len(text)) :
     /\ r[2] - r[1] >= 6
     /\ \E c \in {"*", "_"} : MarkerAt(text, c, 3, r[1]) /\ MarkerAt(text, c, 3, r[2] - 2)
     /\ Plain(text, r[1] + 3, r[2] - 3) /\ NoNewline(text, r[1] + 3, r[2] - 3)
     /\ Plain(text, 1, r[1] - 1) /\ Plain(text, r[2] + 1, Len(text))}

\* C6: for text made of a triple-marked region, possibly with plain text
\* around it, the resolver returns exactly two spans, one bold and one
\* italic, both covering the whole region with its markers.
C6_TripleBoldItalic ==
  ipc = "returned" =>
    \A r \in TripleRegions(inlineText) :
      /\ Len(inlineResult) = 2
      /\ \E i, j \in 1..2 :
           /\ inlineResult[i] = Span("bold", r[1] - 1, r[2])
           /\ inlineResult[j] = Span("italic", r[1] - 1, r[2])

\* the priority level of a pattern: triple, double, single, code, link
Level(p) ==
  CASE p \in {1, 2} -> 1
    [] p \in {3, 4} -> 2
    [] p \in {5, 6} -> 3
    [] p = 7 -> 4
    [] p = 8 -> 5

\* span g lies inside the interval of span f
Inside(g, f) == f.start <= g.start /\ g.end <= f.end

\* C7: a pattern of lower priority never yields a span inside an interval
\* matched by a pattern of higher priority, and the text
\* "**bold** *italic* ***both***" resolves to exactly 4 spans, 2 bold and 2
\* italic.
C7_PriorityExclusion ==
  ipc = "returned" =>
    /\ \A p, q \in 1..Len(Patterns) :
         Level(p) < Level(q) =>
           LET higher == ExtractPattern(Patterns[p], inlineText)
               lower == ExtractPattern(Patterns[q], inlineText)
           IN \A i \in 1..Len(higher), j \in 1..Len(lower) :
                ~Inside(lower[j], higher[i])
    /\ inlineText = T_mixed =>
         /\ Len(inlineResult) = 4
         /\ Cardinality(SpansOfType("bold")) = 2
         /\ Cardinality(SpansOfType("italic")) = 2

\* the half-open ranges of spans a and b share a character
Overlap(a, b) == a.start < b.end /\ b.start < a.end

\* C8: the returned list holds no two distinct spans of the same kind whose
\* half-open ranges overlap.
C8_NoSameKindOverlap ==
  ipc = "returned" =>
    \A i, j \in 1..Len(inlineResult) :
      (i # j /\ inlineResult[i].type = inlineResult[j].type) =>
        ~Overlap(inlineResult[i], inlineResult[j])

\* text is cc X cc for c one of * and _, X non-empty without marker characters
IsDoubleMarked(text) ==
  /\ Len(text) >= 5
  /\ \E c \in {"*", "_"} : MarkerAt(text, c, 2, 1) /\ MarkerAt(text, c, 2, Len(text) - 1)
  /\ Plain(text, 3, Len(text) - 2)

\* C9 as stated: for text **X** or __X__ where X holds no marker character the
\* resolver returns exactly one span, a bold span from the first opening
\* marker character to just after the last closing one, and no italic span.
C9_DoubleMarkedOneBold_AnyContent ==
  (ipc = "returned" /\ IsDoubleMarked(inlineText)) =>
    inlineResult = <<Span("bold", 0, Len(inlineText))>>

\* C9: for text **X** or __X__ where X holds no marker character and no line
\* break the resolver returns exactly one span, a bold span from the first
\* opening marker character to just after the last closing one; the single
\* marker characters inside the double markers give no italic span.
C9_DoubleMarkedOneBold ==
  (/\ ipc = "returned"
   /\ IsDoubleMarked(inlineText)
   /\ NoNewline(inlineText, 1, Len(inlineText))) =>
    /\ inlineResult = <<Span("bold", 0, Len(inlineText))>>
    /\ SpansOfType("italic") = {}

C9_Witness ==
  /\ ipc = "returned"
  /\ inlineText = <<"_", "_", "a", "a", "_", "_">>
  /\ inlineResult = <<Span("bold", 0, 6)>>

LinkSpans == {k \in 1..Len(inlineResult) : inlineResult[k].type = "link"}

\* C20: every link span returned by the inline resolver covers one whole
\* [text](url) occurrence: it starts at a [, ends just after a ), holds
\* non-empty text without ] up to a ] that ( follows at once, then a
\* non-empty url without ), and its url attribute is the characters between
\* the parentheses, unchanged.
C20_LinkSpanWhole ==
  ipc = "returned" =>
    \A k \in LinkSpans :
      LET f == inlineResult[k]
          s == f.start + 1
          e == f.end
      IN /\ s >= 1 /\ e <= Len(inlineText)
         /\ inlineText[s] = "[" /\ inlineText[e] = ")"
         /\ \E r \in (s + 2)..(e - 3) :
              /\ inlineText[r] = "]" /\ inlineText[r + 1] = "("
              /\ \A m \in (s + 1)..(r - 1) : inlineText[m] # "]"
              /\ \A m \in (r + 2)..(e - 1) : inlineText[m] # ")"
              /\ f.url = SubSeq(inlineText, r + 2, e - 1)

C20_Witness ==
  /\ ipc = "returned"
  /\ inlineText = T_linkNested
  /\ inlineResult = <<[type |-> "link", start |-> 0, end |-> 8, url |-> <<"a", "(">>]>>

\* C27: the spans returned by the inline resolver hold no two entries with
\* the same (start, end, kind) triple, and are ordered by start ascending
\* and, among spans with equal start, by length descending.
C27_SortedNoDuplicates ==
  ipc = "returned" =>
    \A i, j \in 1..Len(inlineResult) :
      i < j =>
        /\ ~(/\ inlineResult[i].start = inlineResult[j].start
             /\ inlineResult[i].end = inlineResult[j].end
             /\ inlineResult[i].type = inlineResult[j].type)
        /\ inlineResult[i].start <= inlineResult[j].start
        /\ inlineResult[i].start = inlineResult[j].start =>
             inlineResult[i].end >= inlineResult[j].end

C27_Witness ==
  /\ ipc = "returned"
  /\ inlineText = <<"_", "*", "_", "*">>
  /\ inlineResult = <<[type |-> "italic", start |-> 0, end |-> 3],
                      [type |-> "italic", start |-> 1, end |-> 4]>>

\* ------------------------------------------------------ converter: helpers

UpperCase ==
  <<"A", "B", "C", "D", "E", "F", "G", "H", "I", "J", "K", "L", "M",
    "N", "O", "P", "Q", "R", "S", "T", "U", "V", "W", "X", "Y", "Z">>

LowerCase ==
  <<"a", "b", "c", "d", "e", "f", "g", "h", "i", "j", "k", "l", "m",
    "n", "o", "p", "q", "r", "s", "t", "u", "v", "w", "x", "y", "z">>

\* text.toLowerCase()
ToLowerCase(text) ==
  [i \in 1..Len(text) |->
     IF \E k \in 1..Len(UpperCase) : UpperCase[k] = text[i]
       THEN LowerCase[CHOOSE k \in 1..Len(UpperCase) : UpperCase[k] = text[i]]
       ELSE text[i]]

\* the characters of the class [a-z0-9]
IdChars == {LowerCase[k] : k \in 1..Len(LowerCase)} \cup Digits

\* .replace(/[^a-z0-9]+/g, "-") from 1-based position i on
RECURSIVE ReplaceRuns(_, _)
ReplaceRuns(text, i) ==
  IF i > Len(text) THEN <<>>
  ELSE IF text[i] \in IdChars THEN <<text[i]>> \o ReplaceRuns(text, i + 1)
  ELSE IF i > 1 /\ text[i - 1] \notin IdChars THEN ReplaceRuns(text, i + 1)
  ELSE <<"-">> \o ReplaceRuns(text, i + 1)

\* generateId without its second replace
StripHyphens_None(text) == text

\* .replace(/^-|-$/g, "")
StripHyphens(text) ==
  LET a == IF StartsWith(text, <<"-">>) THEN Slice(text, 1) ELSE text
  IN IF EndsWith(a, <<"-">>) THEN SubSeq(a, 1, Len(a) - 1) ELSE a

GenerateId(text) == StripHyphens(ReplaceRuns(ToLowerCase(text), 1))

ConvertHeading(token) ==
  [type |-> "heading", level |-> token.level, text |-> token.text,
   id |-> GenerateId(token.text), formatting |-> token.formatting]

ConvertParagraph(token) ==
  [type |-> "paragraph", text |-> token.text, formatting |-> token.formatting]

ConvertList(listItems, ordered) ==
  [type |-> "list", ordered |-> ordered,
   items |-> [k \in 1..Len(listItems) |->
                [text |-> listItems[k].text, level |-> listItems[k].level,
                 formatting |-> listItems[k].formatting]]]

ConvertCodeBlock(token) ==
  [type |-> "code-block", language |-> token.language, code |-> token.code]

IsHeaderRow(t) == t.isHeader

IsDataRow(t) == ~t.isHeader

\* headerRow = tokens.find(isHeader); dataRows = tokens.filter(not isHeader)
ConvertTable(tableRows) ==
  LET headerRows == SelectSeq(tableRows, IsHeaderRow)
      dataRows == SelectSeq(tableRows, IsDataRow)
  IN [type |-> "table",
      headers |-> IF headerRows # <<>> THEN headerRows[1].cells ELSE <<>>,
      rows |-> [k \in 1..Len(dataRows) |-> dataRows[k].cells],
      alignment |-> IF headerRows # <<>> THEN headerRows[1].alignment ELSE Null]

ConvertBlockquote(token) ==
  [type |-> "blockquote", text |-> token.text, formatting |-> token.formatting]

ConvertHorizontalRule == [type |-> "horizontal-rule"]

IsRemoteUrl(url) ==
  \/ StartsWith(url, <<"h", "t", "t", "p", ":", "/", "/">>)
  \/ StartsWith(url, <<"h", "t", "t", "p", "s", ":", "/", "/">>)

\* what the load of an image can end with: the bytes, or nothing (the fetch
\* rejected or timed out, the file is missing, the read threw, or there is
\* neither a remote url nor a baseDir)
ImageOutcomes(url, dir) ==
  IF IsRemoteUrl(url) \/ dir # Null THEN {<<"b", "y", "t", "e", "s">>, Null} ELSE {Null}

\* convertImage losing the url when nothing was loaded
ImageElement_UrlOnlyWithData(token, data) ==
  [type |-> "image", alt |-> token.alt,
   url |-> IF data = Null THEN Null ELSE token.url, data |-> data]

ImageElement(token, data) ==
  [type |-> "image", alt |-> token.alt, url |-> token.url, data |-> data]

DefaultTitle == <<"D", "o", "c", "u", "m", "e", "n", "t">>

IsHeadingElement(el) == el.type = "heading"

\* extractMetadata taking the last heading instead of the first
ExtractMetadata_Last(els) ==
  LET headings == SelectSeq(els, IsHeadingElement)
  IN [title |-> IF headings # <<>> /\ headings[Len(headings)].text # <<>>
                  THEN headings[Len(headings)].text ELSE DefaultTitle]

\* title: firstHeading?.text || "Document"
ExtractMetadata(els) ==
  LET headings == SelectSeq(els, IsHeadingElement)
  IN [title |-> IF headings # <<>> /\ headings[1].text # <<>>
                  THEN headings[1].text ELSE DefaultTitle]

\* the inner loop of case LIST_ITEM leaving after its first iteration
ListItemRunEnd_One(toks, i) == i + 1

\* the inner loop of case LIST_ITEM: the 0-based index after the run of
\* consecutive LIST_ITEM tokens that starts at i
RECURSIVE ListItemRunEnd(_, _)
ListItemRunEnd(toks, i) ==
  IF i < Len(toks) /\ toks[i + 1].type = "LIST_ITEM"
    THEN ListItemRunEnd(toks, i + 1) ELSE i

\* the loop of processList: it also breaks at an item of the other flag
RECURSIVE ProcessListEnd(_, _, _)
ProcessListEnd(toks, i, ordered) ==
  IF i < Len(toks) /\ toks[i + 1].type = "LIST_ITEM" /\ toks[i + 1].ordered = ordered
    THEN ProcessListEnd(toks, i + 1, ordered) ELSE i

\* the inner loop of case TABLE_ROW / the loop of processTable
RECURSIVE TableRunEnd(_, _)
TableRunEnd(toks, i) ==
  IF i < Len(toks) /\ toks[i + 1].type = "TABLE_ROW"
    THEN TableRunEnd(toks, i + 1) ELSE i

\* ------------------------------------------------------- converter: inputs

TK_heading ==
  [type |-> "HEADING", level |-> 2, text |-> <<"H", "i", " ", "Y", "o", "u">>,
   formatting |-> <<>>, line |-> 0]

TK_headingEmpty ==
  [type |-> "HEADING", level |-> 1, text |-> <<>>, formatting |-> <<>>, line |-> 0]

TK_headingDeep ==
  [type |-> "HEADING", level |-> 4, text |-> <<"Z">>, formatting |-> <<>>, line |-> 0]

TK_paragraph ==
  [type |-> "PARAGRAPH", text |-> <<"p">>, formatting |-> <<>>, line |-> 0]

TK_ul ==
  [type |-> "LIST_ITEM", ordered |-> FALSE, text |-> <<"u">>, level |-> 0,
   formatting |-> <<>>, line |-> 0]

TK_ol ==
  [type |-> "LIST_ITEM", ordered |-> TRUE, text |-> <<"o">>, level |-> 0,
   formatting |-> <<>>, line |-> 0]

TK_ulNested ==
  [type |-> "LIST_ITEM", ordered |-> FALSE, text |-> <<"n">>, level |-> 1,
   formatting |-> <<[type |-> "code", start |-> 0, end |-> 1]>>, line |-> 0]

TK_code ==
  [type |-> "CODE_BLOCK", language |-> Null, code |-> <<"c">>, line |-> 0]

TK_tableHeader ==
  [type |-> "TABLE_ROW", cells |-> <<<<"x">>, <<"y">>>>, isHeader |-> TRUE,
   alignment |-> <<"left", "center">>, line |-> 0]

TK_tableHeaderWide ==
  [type |-> "TABLE_ROW", cells |-> <<<<"p">>, <<"q">>, <<"r">>>>, isHeader |-> TRUE,
   alignment |-> <<"left", "center", "right">>, line |-> 0]

TK_tableRow ==
  [type |-> "TABLE_ROW", cells |-> <<<<"1">>, <<"2">>>>, isHeader |-> FALSE,
   alignment |-> <<"left", "center">>, line |-> 0]

TK_tableRowShort ==
  [type |-> "TABLE_ROW", cells |-> <<<<"3">>>>, isHeader |-> FALSE,
   alignment |-> <<"left", "center">>, line |-> 0]

TK_imageRemote ==
  [type |-> "IMAGE", alt |-> <<"r">>,
   url |-> <<"h", "t", "t", "p", ":", "/", "/", "h", "/", "i">>, line |-> 0]

TK_imageLocal ==
  [type |-> "IMAGE", alt |-> <<"l">>, url |-> <<"i", ".", "p", "n", "g">>,
   line |-> 0]

TK_blockquote ==
  [type |-> "BLOCKQUOTE", text |-> <<"q">>, formatting |-> <<>>, line |-> 0]

TK_rule == [type |-> "HORIZONTAL_RULE", line |-> 0]

TK_unknown == [type |-> "UNKNOWN", line |-> 0]

\* a null / undefined token list (kept apart from every token sequence)
NullTokens == <<[type |-> "<null>"]>>

\* The token alphabets the inputs of convert are built from.
TokenPools ==
  { {TK_ul, TK_ol, TK_ulNested, TK_paragraph},
    {TK_tableHeader, TK_tableHeaderWide, TK_tableRow, TK_tableRowShort, TK_paragraph},
    {TK_imageRemote, TK_imageLocal, TK_heading, TK_rule, TK_ul},
    {TK_heading, TK_code, TK_blockquote, TK_unknown, TK_ul},
    {TK_heading, TK_headingEmpty, TK_headingDeep, TK_paragraph} }

H_helloWorldTest ==
  <<"H", "e", "l", "l", "o", " ", 
    "W", "o", "r", "l", "d", " ", "T", "e", "s", "t">>

H_testExample ==
  <<"T", "e", "s", "t", " ", "&", " ", 
    "E", "x", "a", "m", "p", "l", "e", " ", "#", "1">>

HeadingAlphabet == {"A", "b", "1", " ", "-"}

\* the heading texts generateId is applied to
HeadingTexts ==
  UNION {[1..k -> HeadingAlphabet] : k \in 0..MaxHeadingLen}
    \cup {H_helloWorldTest, H_testExample}

TK_headingOf(text) ==
  [type |-> "HEADING", level |-> 2, text |-> text, formatting |-> <<>>, line |-> 0]

TokenInputs ==
  {NullTokens, <<>>}
    \cup UNION {SeqsUpTo(P, MaxTokens) : P \in TokenPools}
    \cup {<<TK_headingOf(t)>> : t \in HeadingTexts}

\* --------------------------------------------------- converter: operations

ConvertInit ==
  /\ ctokens \in TokenInputs
  /\ baseDir \in {Null, <<"d">>}
  /\ cver \in {1, 2}
  /\ cpc = "start"
  /\ ci = 0
  /\ elements = <<>>
  /\ metadata = Null

\* if (!tokens || tokens.length === 0) return the empty document
ConvertStart ==
  /\ cpc = "start"
  /\ IF ctokens = NullTokens \/ ctokens = <<>>
       THEN cpc' = "done" /\ metadata' = [title |-> DefaultTitle]
       ELSE cpc' = "loop" /\ metadata' = metadata
  /\ UNCHANGED <<ctokens, baseDir, cver, ci, elements, parserVars, inlineVars, callVars>>

\* the while loop of convert is at a token of type ty
AtToken(ty) ==
  cpc = "loop" /\ ci < Len(ctokens) /\ ctokens[ci + 1].type = ty

currentToken == ctokens[ci + 1]

\* a case that pushes its element twice
Push_Twice(el, next) ==
  /\ elements' = elements \o <<el, el>>
  /\ ci' = next
  /\ UNCHANGED <<ctokens, baseDir, cver, cpc, metadata, parserVars, inlineVars, callVars>>

\* elements.push(el); the cursor moves to next
Push(el, next) ==
  /\ elements' = Append(elements, el)
  /\ ci' = next
  /\ UNCHANGED <<ctokens, baseDir, cver, cpc, metadata, parserVars, inlineVars, callVars>>

HeadingCase == AtToken("HEADING") /\ Push(ConvertHeading(currentToken), ci + 1)

ParagraphCase == AtToken("PARAGRAPH") /\ Push(ConvertParagraph(currentToken), ci + 1)

\* case LIST_ITEM of document-converter.service.ts: the whole run of
\* LIST_ITEM tokens goes into one list, with the flag of the first
ListItemCase ==
  /\ cver = 1 /\ AtToken("LIST_ITEM")
  /\ Push(ConvertList(SubSeq(ctokens, ci + 1, ListItemRunEnd(ctokens, ci)),
                      currentToken.ordered),
          ListItemRunEnd(ctokens, ci))

\* case LIST_ITEM through processList: the run ends where the flag changes
ProcessList ==
  /\ cver = 2 /\ AtToken("LIST_ITEM")
  /\ Push(ConvertList(SubSeq(ctokens, ci + 1,
                             ProcessListEnd(ctokens, ci, currentToken.ordered)),
                      currentToken.ordered),
          ProcessListEnd(ctokens, ci, currentToken.ordered))

CodeBlockCase == AtToken("CODE_BLOCK") /\ Push(ConvertCodeBlock(currentToken), ci + 1)

\* case TABLE_ROW (processTable in the other definition)
TableRowCase ==
  /\ AtToken("TABLE_ROW")
  /\ Push(ConvertTable(SubSeq(ctokens, ci + 1, TableRunEnd(ctokens, ci))),
          TableRunEnd(ctokens, ci))

\* case IMAGE: convert suspends at await this.convertImage(...)
ImageAwait ==
  /\ AtToken("IMAGE")
  /\ cpc' = "await"
  /\ UNCHANGED <<ctokens, baseDir, cver, ci, elements, metadata, parserVars,
                 inlineVars, callVars>>

\* convertImage settles, with or without data, and convert resumes
ImageSettled ==
  /\ cpc = "await"
  /\ \E data \in ImageOutcomes(currentToken.url, baseDir) :
       elements' = Append(elements, ImageElement(currentToken, data))
  /\ ci' = ci + 1
  /\ cpc' = "loop"
  /\ UNCHANGED <<ctokens, baseDir, cver, metadata, parserVars, inlineVars, callVars>>

BlockquoteCase == AtToken("BLOCKQUOTE") /\ Push(ConvertBlockquote(currentToken), ci + 1)

HorizontalRuleCase == AtToken("HORIZONTAL_RULE") /\ Push(ConvertHorizontalRule, ci + 1)

\* default: the token is skipped
UnknownCase ==
  /\ AtToken("UNKNOWN")
  /\ ci' = ci + 1
  /\ UNCHANGED <<ctokens, baseDir, cver, cpc, elements, metadata, parserVars,
                 inlineVars, callVars>>

\* after the loop: return { elements, metadata: extractMetadata(elements) }
ConvertFinish ==
  /\ cpc = "loop" /\ ci >= Len(ctokens)
  /\ metadata' = ExtractMetadata(elements)
  /\ cpc' = "done"
  /\ UNCHANGED <<ctokens, baseDir, cver, ci, elements, parserVars, inlineVars, callVars>>

InitConvert == ParseIdle /\ InlineIdle /\ ConvertInit /\ CallsIdle

NextConvert ==
  \/ ConvertStart
  \/ HeadingCase
  \/ ParagraphCase
  \/ ListItemCase
  \/ ProcessList
  \/ CodeBlockCase
  \/ TableRowCase
  \/ ImageAwait
  \/ ImageSettled
  \/ BlockquoteCase
  \/ HorizontalRuleCase
  \/ UnknownCase
  \/ ConvertFinish

SpecConvert == InitConvert /\ [][NextConvert]_vars

\* ------------------------------------------------------- converter: claims

IsListElement(el) == el.type = "list"

\* the 0-based index after the run of LIST_ITEM tokens of one ordered flag
\* that starts at i
RECURSIVE SameFlagRunEnd(_, _)
SameFlagRunEnd(toks, i) ==
  IF /\ i < Len(toks)
     /\ toks[i + 1].type = "LIST_ITEM"
     /\ (i > 0 /\ toks[i].type = "LIST_ITEM" => toks[i + 1].ordered = toks[i].ordered)
    THEN SameFlagRunEnd(toks, i + 1) ELSE i

\* one List element for every maximal run of LIST_ITEM tokens of one flag
RECURSIVE ListsByFlag(_, _)
ListsByFlag(toks, i) ==
  IF i >= Len(toks) THEN <<>>
  ELSE IF toks[i + 1].type # "LIST_ITEM" THEN ListsByFlag(toks, i + 1)
  ELSE LET e == SameFlagRunEnd(toks, i + 1)
       IN <<ConvertList(SubSeq(toks, i + 1, e), toks[i + 1].ordered)>>
            \o ListsByFlag(toks, e)

\* C10: convert splits a run of consecutive ListItem tokens at every change
\* of the ordered flag: the List elements of the document are, in order, one
\* per maximal run of ListItem tokens of one flag, each with that flag and
\* the items of that run, so an unordered item directly followed by an
\* ordered one gives two List elements.
C10_ListsSplitAtFlagChange ==
  (cpc = "done" /\ ctokens # NullTokens) =>
    SelectSeq(elements, IsListElement) = ListsByFlag(ctokens, 0)

\* the 1-based positions where a run of consecutive LIST_ITEM tokens starts
ListRunStarts ==
  {k \in 1..Len(ctokens) :
     ctokens[k].type = "LIST_ITEM" /\ (k = 1 \/ ctokens[k - 1].type # "LIST_ITEM")}

\* the 1-based position of the last token of the run that starts at k
ListRunLast(k) ==
  CHOOSE e \in k..Len(ctokens) :
    /\ \A m \in k..e : ctokens[m].type = "LIST_ITEM"
    /\ (e = Len(ctokens) \/ ctokens[e + 1].type # "LIST_ITEM")

\* every run of consecutive LIST_ITEM tokens holds items of one flag only
RunsShareFlag ==
  \A k \in ListRunStarts :
    \A m \in k..ListRunLast(k) : ctokens[m].ordered = ctokens[k].ordered

IsIdChar(ch) == ch \in IdChars

\* the maximal runs of a-z and 0-9 of text, from 1-based position i on; w is
\* the run being read
RECURSIVE IdWords(_, _, _)
IdWords(text, i, w) ==
  IF i > Len(text) THEN (IF w = <<>> THEN <<>> ELSE <<w>>)
  ELSE IF IsIdChar(text[i]) THEN IdWords(text, i + 1, Append(w, text[i]))
  ELSE (IF w = <<>> THEN <<>> ELSE <<w>>) \o IdWords(text, i + 1, <<>>)

HeadingElements == {i \in 1..Len(elements) : elements[i].type = "heading"}

\* C13: a heading's id is its text lower-cased with every maximal run of
\* characters outside a-z and 0-9 replaced by one hyphen and the leading and
\* trailing hyphen removed, that is, the runs of a-z and 0-9 of the
\* lower-cased text joined by single hyphens: it holds only a-z, 0-9 and
\* single hyphens, never starts or ends with a hyphen, equal texts get equal
\* ids, "Hello World Test" gives "hello-world-test" and "Test & Example #1"
\* gives "test-example-1".
C13_HeadingId ==
  cpc = "done" =>
    \A h \in HeadingElements :
      LET id == elements[h].id
          text == elements[h].text
      IN /\ id = Join(IdWords(ToLowerCase(text), 1, <<>>), <<"-">>)
         /\ \A i \in 1..Len(id) : id[i] \in IdChars \cup {"-"}
         /\ \A i \in 1..(Len(id) - 1) : ~(id[i] = "-" /\ id[i + 1] = "-")
         /\ id # <<>> => id[1] # "-" /\ id[Len(id)] # "-"
         /\ \A g \in HeadingElements : elements[g].text = text => elements[g].id = id
         /\ text = H_helloWorldTest =>
              id = <<"h", "e", "l", "l", "o", "-", "w", "o", "r", "l", "d", "-",
                     "t", "e", "s", "t">>
         /\ text = H_testExample =>
              id = <<"t", "e", "s", "t", "-", "e", "x", "a", "m", "p", "l", "e",
                     "-", "1">>

C13_Witness ==
  /\ cpc = "done"
  /\ ctokens = <<TK_headingOf(H_testExample)>>
  /\ elements[1].id =
       <<"t", "e", "s", "t", "-", "e", "x", "a", "m", "p", "l", "e", "-", "1">>

\* the first Heading element in element order
FirstHeading == CHOOSE h \in HeadingElements : \A g \in HeadingElements : h <= g

ImageBytes == <<"b", "y", "t", "e", "s">>

\* the elements convert builds from toks, from 0-based index i on, when
\* every image load succeeds
RECURSIVE ElementsWhenLoaded(_, _)
ElementsWhenLoaded(toks, i) ==
  IF i >= Len(toks) THEN <<>>
  ELSE
    LET t == toks[i + 1]
        listEnd == IF cver = 1 THEN ListItemRunEnd(toks, i)
                   ELSE ProcessListEnd(toks, i, t.ordered)
    IN CASE t.type = "HEADING" ->
              <<ConvertHeading(t)>> \o ElementsWhenLoaded(toks, i + 1)
         [] t.type = "PARAGRAPH" ->
              <<ConvertParagraph(t)>> \o ElementsWhenLoaded(toks, i + 1)
         [] t.type = "LIST_ITEM" ->
              <<ConvertList(SubSeq(toks, i + 1, listEnd), t.ordered)>>
                \o ElementsWhenLoaded(toks, listEnd)
         [] t.type = "CODE_BLOCK" ->
              <<ConvertCodeBlock(t)>> \o ElementsWhenLoaded(toks, i + 1)
         [] t.type = "TABLE_ROW" ->
              <<ConvertTable(SubSeq(toks, i + 1, TableRunEnd(toks, i)))>>
                \o ElementsWhenLoaded(toks, TableRunEnd(toks, i))
         [] t.type = "IMAGE" ->
              <<ImageElement(t, ImageBytes)>> \o ElementsWhenLoaded(toks, i + 1)
         [] t.type = "BLOCKQUOTE" ->
              <<ConvertBlockquote(t)>> \o ElementsWhenLoaded(toks, i + 1)
         [] t.type = "HORIZONTAL_RULE" ->
              <<ConvertHorizontalRule>> \o ElementsWhenLoaded(toks, i + 1)
         [] OTHER -> ElementsWhenLoaded(toks, i + 1)

\* the image loads of the finished conversion that gave no data
FailedImages ==
  {j \in 1..Len(elements) : elements[j].type = "image" /\ elements[j].data = Null}

\* C15: when loading an image fails, convert still completes: the await
\* settles with an Image element appended at the cursor that has the token's
\* alt and url and no data, the cursor moves on by one, and the finished
\* document equals, element by element and in its title, the document built
\* when every image loads, except for the data of the failed images.
C15_ImageFailureTolerated ==
  /\ [][cpc = "await" =>
          /\ cpc' = "loop" /\ ci' = ci + 1 /\ Len(elements') = Len(elements) + 1
          /\ SubSeq(elements', 1, Len(elements)) = elements
          /\ LET el == elements'[Len(elements')]
             IN /\ el.type = "image"
                /\ el.alt = currentToken.alt /\ el.url = currentToken.url
                /\ el.data \in {Null, ImageBytes}]_vars
  /\ [](cpc = "done" /\ ctokens # NullTokens =>
          LET loaded == ElementsWhenLoaded(ctokens, 0)
          IN /\ Len(elements) = Len(loaded)
             /\ \A j \in 1..Len(elements) :
                  IF j \in FailedImages
                    THEN /\ loaded[j].type = "image"
                         /\ elements[j].alt = loaded[j].alt
                         /\ elements[j].url = loaded[j].url
                    ELSE elements[j] = loaded[j]
             /\ metadata = ExtractMetadata(loaded))

C15_Witness ==
  /\ cpc = "done"
  /\ ctokens = <<TK_ul, TK_imageRemote, TK_ul>>
  /\ Len(elements) = 3
  /\ FailedImages = {2}
  /\ elements[2].url = TK_imageRemote.url

\* ------------------------------------- converter: interleaved invocations

\* the switch of convert at a token that is not an IMAGE: the elements pushed
\* and the cursor after the case
CaseResult(toks, i) ==
  LET t == toks[i + 1]
      listEnd == IF cver = 1 THEN ListItemRunEnd(toks, i)
                 ELSE ProcessListEnd(toks, i, t.ordered)
  IN CASE t.type = "HEADING" -> [els |-> <<ConvertHeading(t)>>, next |-> i + 1]
       [] t.type = "PARAGRAPH" -> [els |-> <<ConvertParagraph(t)>>, next |-> i + 1]
       [] t.type = "LIST_ITEM" ->
            [els |-> <<ConvertList(SubSeq(toks, i + 1, listEnd), t.ordered)>>,
             next |-> listEnd]
       [] t.type = "CODE_BLOCK" -> [els |-> <<ConvertCodeBlock(t)>>, next |-> i + 1]
       [] t.type = "TABLE_ROW" ->
            [els |-> <<ConvertTable(SubSeq(toks, i + 1, TableRunEnd(toks, i)))>>,
             next |-> TableRunEnd(toks, i)]
       [] t.type = "BLOCKQUOTE" -> [els |-> <<ConvertBlockquote(t)>>, next |-> i + 1]
       [] t.type = "HORIZONTAL_RULE" -> [els |-> <<ConvertHorizontalRule>>, next |-> i + 1]
       [] OTHER -> [els |-> <<>>, next |-> i + 1]

\* convert runs without suspending from cursor i, with els pushed so far,
\* to its next await or to its return
RECURSIVE RunTo(_, _, _)
RunTo(toks, i, els) ==
  IF i >= Len(toks)
    THEN [pc |-> "done", i |-> i, elements |-> els, metadata |-> ExtractMetadata(els)]
  ELSE IF toks[i + 1].type = "IMAGE"
    THEN [pc |-> "await", i |-> i, elements |-> els, metadata |-> Null]
  ELSE RunTo(toks, CaseResult(toks, i).next, els \o CaseResult(toks, i).els)

\* the elements list of caller k's invocation, were it a field of the service
CallElements_Shared(cs, k) == cs["A"].elements

\* const elements: DocumentElement[] = [] is local to the invocation
CallElements(cs, k) == cs[k].elements

\* some other invocation is suspended at an image load
OthersSuspended(k) == \E j \in Callers \ {k} : calls[j].pc = "await"

CallInputs ==
  { NullTokens,
    <<TK_paragraph>>,
    <<TK_imageRemote>>,
    <<TK_heading, TK_imageRemote, TK_ul>>,
    <<TK_ul, TK_imageLocal, TK_ol, TK_imageRemote>> }

CallsInit ==
  /\ calls \in [Callers -> {NewCall(toks, dir) :
                              toks \in CallInputs, dir \in {Null, <<"d">>}}]
  /\ ctokens = <<>> /\ baseDir = Null /\ cver \in {1, 2} /\ cpc = "idle"
  /\ ci = 0 /\ elements = <<>> /\ metadata = Null

\* caller k invokes convert: it runs to its first await or to its return
CallConvert(k) ==
  /\ calls[k].pc = "idle"
  /\ LET c == calls[k]
         r == IF c.tokens = NullTokens \/ c.tokens = <<>>
                THEN [pc |-> "done", i |-> 0, elements |-> <<>>,
                      metadata |-> [title |-> DefaultTitle]]
                ELSE RunTo(c.tokens, 0, <<>>)
     IN calls' = [calls EXCEPT ![k] =
                    [c EXCEPT !.pc = r.pc, !.i = r.i, !.elements = r.elements,
                              !.metadata = r.metadata,
                              !.overlapped = c.overlapped \/ OthersSuspended(k)]]
  /\ UNCHANGED <<parserVars, inlineVars, converterVars>>

\* the image load caller k's invocation awaits settles and it resumes
CallSettled(k) ==
  /\ calls[k].pc = "await"
  /\ LET c == calls[k]
         t == c.tokens[c.i + 1]
     IN \E data \in ImageOutcomes(t.url, c.dir) :
          LET r == RunTo(c.tokens, c.i + 1,
                         Append(CallElements(calls, k), ImageElement(t, data)))
          IN calls' = [calls EXCEPT ![k] =
                         [c EXCEPT !.pc = r.pc, !.i = r.i, !.elements = r.elements,
                                   !.metadata = r.metadata,
                                   !.loads = Append(c.loads, data),
                                   !.overlapped = c.overlapped \/ OthersSuspended(k)]]
  /\ UNCHANGED <<parserVars, inlineVars, converterVars>>

\* caller k keeps what its first invocation returned and is about to invoke
\* convert once more with the same arguments
CallAgain(k) ==
  /\ calls[k].pc = "done" /\ ~calls[k].again
  /\ LET c == calls[k]
     IN calls' = [calls EXCEPT ![k] =
                    [NewCall(c.tokens, c.dir) EXCEPT
                       !.again = TRUE, !.overlapped = c.overlapped,
                       !.first = <<[loads |-> c.loads, elements |-> c.elements,
                                    metadata |-> c.metadata]>>]]
  /\ UNCHANGED <<parserVars, inlineVars, converterVars>>

InitCalls == ParseIdle /\ InlineIdle /\ CallsInit

NextCalls ==
  \/ \E k \in Callers : CallConvert(k)
  \/ \E k \in Callers : CallSettled(k)
  \/ \E k \in Callers : CallAgain(k)

SpecCalls == InitCalls /\ [][NextCalls]_vars

\* ------------------------------ converter: interleaved invocations, claims

\* the elements of convert(toks) run alone from cursor i, its image loads
\* settling with the data in loads, in order
RECURSIVE AloneElements(_, _, _)
AloneElements(toks, i, loads) ==
  IF toks = NullTokens \/ i >= Len(toks) THEN <<>>
  ELSE IF toks[i + 1].type = "IMAGE"
    THEN <<ImageElement(toks[i + 1], Head(loads))>>
           \o AloneElements(toks, i + 1, Tail(loads))
  ELSE CaseResult(toks, i).els \o AloneElements(toks, CaseResult(toks, i).next, loads)

\* the finished invocations: those in calls and the first ones kept
Finished ==
  {[tokens |-> calls[k].tokens, dir |-> calls[k].dir, loads |-> calls[k].loads,
    elements |-> calls[k].elements, metadata |-> calls[k].metadata] :
      k \in {j \in Callers : calls[j].pc = "done"}}
  \cup
  {[tokens |-> calls[k].tokens, dir |-> calls[k].dir,
    loads |-> calls[k].first[1].loads, elements |-> calls[k].first[1].elements,
    metadata |-> calls[k].first[1].metadata] :
      k \in {j \in Callers : calls[j].first # <<>>}}

RowLinesOf(h) ==
  {r \in (tokens[h].line + 3)..Len(lines) :
     \A m \in (tokens[h].line + 3)..r :
       /\ Classify(Trim(lines[m])) = "pipe"
       /\ ~IsTableSeparator(Trim(lines[m]))}

\* the cells of the sample rows, written out
SampleCells(line) ==
  IF line = L_tableRowShort THEN <<<<"1">>>>
  ELSE IF line = L_tableRowLong THEN <<<<"1">>, <<"2">>, <<"3">>>>
  ELSE IF line = L_tableRow THEN <<<<"1">>, <<"2">>>>
  ELSE ParseTableRow(line)

\* the first token of the run of TABLE_ROW tokens that token t is in
TableRunStart(t) ==
  CHOOSE b \in 1..t :
    /\ \A m \in b..t : tokens[m].type = "TABLE_ROW"
    /\ b = 1 \/ tokens[b - 1].type # "TABLE_ROW"

\* how many data rows the run holds from token b to token t
DataRowsUpTo(b, t) == Cardinality({m \in b..t : ~tokens[m].isHeader})

\* C18: every row line of a table, whatever its number of cells, is emitted
\* as one TableRow token holding exactly its own cells (no padding, no
\* truncation, no rejection, no error), and the Table element convert builds
\* from the run of TableRow tokens holds the cells of every data row,
\* unchanged and in order, in its rows.
C18_RaggedRowsKept ==
  /\ pc # "threw"
  /\ (pc = "done" /\ lines # <<>>) =>
       \A h \in {t \in TokensOfType("TABLE_ROW") : tokens[t].isHeader} :
         /\ \A r \in RowLinesOf(h) :
              \E t \in TokensOfType("TABLE_ROW") :
                /\ TokensAtLine(r - 1) = {t}
                /\ ~tokens[t].isHeader
                /\ tokens[t].cells = SampleCells(lines[r])
                /\ tokens[t].alignment = tokens[h].alignment
  /\ (pc = "done" /\ lines # <<>>) =>
       \A t \in {d \in TokensOfType("TABLE_ROW") : ~tokens[d].isHeader} :
         LET b == TableRunStart(t)
             table == CaseResult(tokens, b - 1).els[1]
             k == DataRowsUpTo(b, t)
         IN /\ table.type = "table"
            /\ Len(table.rows) >= k
            /\ table.rows[k] = tokens[t].cells

C18_Witness ==
  /\ pc = "done"
  /\ lines = <<L_tableHead, L_tableSep, L_tableRowLong, L_tableRowShort>>
  /\ Len(tokens) = 3
  /\ tokens[1].cells = <<<<"x">>, <<"y">>>>
  /\ tokens[2].cells = <<<<"1">>, <<"2">>, <<"3">>>>
  /\ tokens[3].cells = <<<<"1">>>>
  /\ CaseResult(tokens, 0).els[1].rows = <<tokens[2].cells, tokens[3].cells>>

\* C23: after a header row and its separator every following line that
\* holds a pipe and is no separator, up to the first line that is blank,
\* holds no pipe or is a separator, is emitted as one data TableRow
\* (isHeader false) of that table; a line that matches the separator pattern
\* is never emitted as a data row.
C23_TableBodyRows ==
  (pc = "done" /\ lines # <<>>) =>
    /\ \A h \in {t \in TokensOfType("TABLE_ROW") : tokens[t].isHeader} :
         \A r \in RowLinesOf(h) :
           \E t \in TokensOfType("TABLE_ROW") :
             /\ TokensAtLine(r - 1) = {t}
             /\ ~tokens[t].isHeader
             /\ h \in HeaderOf(t)
    /\ \A t \in TokensOfType("TABLE_ROW") :
         ~tokens[t].isHeader => ~IsTableSeparator(Trim(lines[tokens[t].line + 1]))

\* C24: two tables separated only by blank lines stay two tables: parse
\* followed by convert gives two Table elements, one for each header row,
\* with that header's cells as headers, its alignment, and its data row as
\* rows.
C24_TablesNotMerged ==
  (pc = "done" /\ lines \in TwoTableInputs) =>
    LET els == AloneElements(tokens, 0, <<>>)
        H == {t \in TokensOfType("TABLE_ROW") : tokens[t].isHeader}
    IN /\ Cardinality(H) = 2
       /\ Len(els) = 2
       /\ \A h \in H :
            \E k \in 1..Len(els) :
              /\ els[k].type = "table"
              /\ els[k].headers = tokens[h].cells
              /\ els[k].alignment = tokens[h].alignment
              /\ els[k].rows = <<tokens[h + 1].cells>>

\* ------------------------------------------------ converter: table claims

IsTableElement(el) == el.type = "table"

TableRunStarts ==
  {k \in 1..Len(ctokens) :
     ctokens[k].type = "TABLE_ROW" /\ (k = 1 \/ ctokens[k - 1].type # "TABLE_ROW")}

\* the 1-based position of the last token of the run that starts at k
TableRunLast(k) ==
  CHOOSE e \in k..Len(ctokens) :
    /\ \A m \in k..e : ctokens[m].type = "TABLE_ROW"
    /\ (e = Len(ctokens) \/ ctokens[e + 1].type # "TABLE_ROW")

\* the header row of the run k..e: its first row with isHeader, 0 when none
RunHeader(k, e) ==
  IF \E m \in k..e : ctokens[m].isHeader
    THEN CHOOSE h \in k..e :
           ctokens[h].isHeader /\ \A m \in k..e : ctokens[m].isHeader => h <= m
    ELSE 0

\* the n-th row of the run from k other than the header row h
RECURSIVE OtherRow(_, _, _)
OtherRow(k, h, n) ==
  IF k = h THEN OtherRow(k + 1, h, n)
  ELSE IF n = 1 THEN k
  ELSE OtherRow(k + 1, h, n - 1)

\* C25: convert merges each maximal run of consecutive TableRow tokens into
\* exactly one Table element: its headers and alignment are those of the
\* run's header row (empty headers and no alignment when the run has none)
\* and its rows are the cells of every other row of the run, in token order.
C25_TableRunMerged ==
  (cpc = "done" /\ ctokens # NullTokens) =>
    LET tables == SelectSeq(elements, IsTableElement)
    IN /\ Len(tables) = Cardinality(TableRunStarts)
       /\ \A k \in TableRunStarts :
            LET j == Cardinality({r \in TableRunStarts : r <= k})
                e == TableRunLast(k)
                h == RunHeader(k, e)
                n == (e - k + 1) - (IF h = 0 THEN 0 ELSE 1)
            IN /\ tables[j].headers = IF h = 0 THEN <<>> ELSE ctokens[h].cells
               /\ tables[j].alignment = IF h = 0 THEN Null ELSE ctokens[h].alignment
               /\ Len(tables[j].rows) = n
               /\ \A m \in 1..n : tables[j].rows[m] = ctokens[OtherRow(k, h, m)].cells

\* ------------------------------------------------ converter: order claims

OneToOneTypes ==
  {"HEADING", "PARAGRAPH", "CODE_BLOCK", "IMAGE", "BLOCKQUOTE", "HORIZONTAL_RULE"}

\* the element type a token type is converted to
ElementTypeOf(ty) ==
  CASE ty = "HEADING" -> "heading"
    [] ty = "PARAGRAPH" -> "paragraph"
    [] ty = "CODE_BLOCK" -> "code-block"
    [] ty = "IMAGE" -> "image"
    [] ty = "BLOCKQUOTE" -> "blockquote"
    [] ty = "HORIZONTAL_RULE" -> "horizontal-rule"
    [] ty = "LIST_ITEM" -> "list"
    [] ty = "TABLE_ROW" -> "table"
    [] OTHER -> "none"

\* token i gives rise to an element: it is a one-to-one token, or the first
\* token of a run of list items (of one flag, with processList) or table rows
StartsElement(i) ==
  LET ty == ctokens[i].type
  IN \/ ty \in OneToOneTypes
     \/ /\ ty = "LIST_ITEM"
        /\ \/ i = 1
           \/ ctokens[i - 1].type # "LIST_ITEM"
           \/ cver = 2 /\ ctokens[i - 1].ordered # ctokens[i].ordered
     \/ ty = "TABLE_ROW" /\ (i = 1 \/ ctokens[i - 1].type # "TABLE_ROW")

\* the tokens among the first n that give rise to an element
SourcesUpTo(n) == {i \in 1..n : StartsElement(i)}

\* the token the j-th element comes from
SourceOf(j, n) ==
  CHOOSE i \in SourcesUpTo(n) : Cardinality({m \in SourcesUpTo(n) : m <= i}) = j

\* an element of a one-to-one token carries what the token carries
CarriesToken(el, tok) ==
  CASE tok.type = "HEADING" -> el.text = tok.text /\ el.level = tok.level
    [] tok.type = "PARAGRAPH" -> el.text = tok.text
    [] tok.type = "CODE_BLOCK" -> el.code = tok.code
    [] tok.type = "IMAGE" -> el.url = tok.url /\ el.alt = tok.alt
    [] tok.type = "BLOCKQUOTE" -> el.text = tok.text
    [] OTHER -> TRUE

\* C26: convert emits exactly one element for each Heading, Paragraph,
\* CodeBlock, Image, Blockquote and HorizontalRule token; at every moment
\* the elements pushed are, in order, those of the tokens and token runs the
\* cursor has passed, also across an awaited image load; the cursor never
\* goes back, every case moves it forward, and it ends just past the last
\* token.
C26_OneToOneInOrder ==
  /\ [](ctokens # NullTokens =>
          /\ ci <= Len(ctokens)
          /\ Len(elements) = Cardinality(SourcesUpTo(ci))
          /\ \A j \in 1..Len(elements) :
               LET tok == ctokens[SourceOf(j, ci)]
               IN /\ elements[j].type = ElementTypeOf(tok.type)
                  /\ CarriesToken(elements[j], tok)
          /\ cpc = "done" => ci = Len(ctokens))
  /\ [][/\ ci' >= ci
        /\ (cpc = "loop" /\ cpc' = "loop") => ci' > ci
        /\ cpc = "await" => ci' = ci + 1
        /\ Len(elements') >= Len(elements)
        /\ SubSeq(elements', 1, Len(elements)) = elements]_vars

C26_Witness ==
  /\ cpc = "done"
  /\ ctokens = <<TK_heading, TK_imageRemote, TK_rule>>
  /\ Len(elements) = 3
  /\ elements[1].type = "heading"
  /\ elements[2].type = "image" /\ elements[2].data = Null
  /\ elements[3].type = "horizontal-rule"

\* a list marker (-, * or +, or digits and a dot), then white space, then
\* nothing
IsEmptyItem(l) ==
  LET t == TrimStart(l)
      d == LeadingCount(t, Digits)
      m == IF t # <<>> /\ Head(t) \in {"*", "-", "+"} THEN 1
           ELSE IF d >= 1 /\ Len(t) > d /\ t[d + 1] = "." THEN d + 1
           ELSE 0
  IN m > 0 /\ Len(t) > m /\ \A k \in (m + 1)..Len(t) : t[k] \in WS

\* C29: a line that is a list marker followed by white space and nothing
\* else is a list item: it yields one ListItem token, not a Paragraph, and
\* when it stands between two list items of its kind the three lines give
\* list items only, which convert puts into one List element.
C29_EmptyItemIsListItem ==
  (pc = "done" /\ lines # <<>>) =>
    /\ \A r \in 1..Len(lines) :
         IsEmptyItem(lines[r]) =>
           \E t \in TokensOfType("LIST_ITEM") : TokensAtLine(r - 1) = {t}
    /\ lines \in {<<L_ul, L_ulEmpty, L_ul>>, <<L_ol, L_olEmpty, L_ol>>} =>
         LET els == AloneElements(tokens, 0, <<>>)
         IN Len(els) = 1 /\ els[1].type = "list" /\ Len(els[1].items) = 3

====
